---- MODULE Spec2Model ----
(***************************************************************************)
(* The EMA(20)/SMA(40) position simulator of the repository, in its three  *)
(* shapes:                                                                 *)
(*   "dashboard"  EMA-SMA-Strategy-Dashboard.py / streamlit_strategy_      *)
(*                dashboard.py (cash-tracking backtest, forced exit)       *)
(*   "scanner"    multiTickerBuySellSignal.py (one share, notifications)   *)
(*   "livebot"    tqqq_bot_org.py (broker position, notifications, orders) *)
(*                                                                         *)
(* The dashboard simulator runs inside the update_table callback of the    *)
(* Dash application; the scanner's simulator runs once per ticker inside   *)
(* the scan of multiTickerBuySellSignal.py (SpecScan).                     *)
(*                                                                         *)
(* Further down, each with a specification of its own: the live trade bot  *)
(* of tqqq_trade_bot.py and TQQQ_strategy.py (SpecBot), simulate_trades of *)
(* signal_bot.py (SpecSignalBot), update_csv of update_tqqq_data.py        *)
(* (SpecCsvUpdate), the Telegram polling loop of dynamic_trend_bot.py      *)
(* (SpecPolling), and the two option-spread scripts qqq_spread.py          *)
(* (SpecOpener) and qqq_spread_close.py (SpecCloser).                      *)
(*                                                                         *)
(* Money is counted in ticks, TicksPerCent ticks to the cent, so that      *)
(* round(x, 2) is a real conversion.  Indicator values are exact rationals *)
(* <<numerator, denominator>>; NaN is the pair with denominator 0.         *)
(***************************************************************************)
EXTENDS Integers, Sequences, FiniteSets, TLC

VARIABLES
    variant,          \* which simulate_strategy is running
    ticker,           \* the ticker symbol as the caller passed it
    download,         \* what yf.download returns: a flat prefix and a tail
    first_row,        \* rows the df.index >= start filter drops
    Close,            \* df['Close'] of the filtered frame
    EMA20,            \* df['EMA20'] of the filtered frame, rationals
    SMA40,            \* df['SMA40'] of the filtered frame, rationals or NaN
    today,            \* datetime.today().date(), as a row ordinal
    initial_capital,  \* dashboard: the initial_capital parameter
    broker,           \* livebot: what the brokerage reports at start-up
    shares,           \* scanner/livebot: the fixed order size
    position,         \* shares held
    cash,             \* dashboard: cash in ticks (untracked elsewhere)
    trade_log,        \* the trade log, a sequence of records
    notified,         \* calls of notify_telegram, in order
    orders,           \* orders accepted by the brokerage, in order
    i,                \* loop index into the filtered df (0-based)
    pc,               \* "start", "loop", "final", "done", "aborted", "shown"
    outputs,          \* dashboard: what update_table returned to Dash
    suspended,        \* locals of the runs a caller has started and parked
    \* multiTickerBuySellSignal.py, the scan of __main__
    ticker_list,      \* the tickers loaded from the CSV, in order
    scan_pos,         \* position of the for loop in ticker_list (1-based)
    all_rows,         \* rows collected for the combined summary
    final_messages,   \* POSTs of final_message to Telegram, in order
    \* tqqq_trade_bot.py and TQQQ_strategy.py, execute_trade
    script,           \* which of the two files is installed
    market,           \* what broker, data files and network answer right now
    submitted,        \* orders POSTed to the brokerage, in order
    trade_log_csv,    \* rows of trade_log.csv
    telegrams,        \* messages delivered by send_telegram, in order
    raised,           \* the exception that ended the last invocation, or ""
    invocations,      \* number of invocations so far
    \* signal_bot.py, simulate_trades
    indicator_df,     \* the df argument: rows of Close, EMA10, MACD_Hist, RSI
    simulated,        \* what simulate_trades returned, with its last locals
    \* update_tqqq_data.py, update_csv
    csv_file,         \* tqqq_data.csv: whether it exists, and its lines
    tradier_day,      \* history.day at the provider, a sequence of bars
    latest,           \* the local `latest` of the last invocation, None = <<>>
    printed,          \* what the last invocation printed
    \* dynamic_trend_bot.py, run_bot
    updates,          \* the updates Telegram holds for the bot, in order
    offset,           \* the local `offset`; None is 0, as `if offset:` reads it
    result,           \* what is left of r["result"] in the for loop
    polling,          \* where run_bot is: "get", "for", "except", or ""
    recent_tickers,   \* the deque of line 26, as a sequence
    replies,          \* calls of send_telegram: chat and kind of text
    handled,          \* update_ids the for loop has taken up, in order
    \* qqq_spread.py, __main__
    opener,           \* environment and answers of the services, or <<>>
    opened,           \* multileg orders POSTed to the brokerage
    summaries,        \* messages POSTed to Telegram
    opener_exit,      \* "" while not run; then "returned" or "failed"
    \* qqq_spread_close.py, __main__
    closer,           \* environment and answers of the services, or <<>>
    closed,           \* multileg orders POSTed to the brokerage
    alerts,           \* messages POSTed to Telegram
    closer_exit       \* "" while not run; then "returned" or "crashed"

simulator_vars ==
    <<variant, ticker, download, first_row, Close, EMA20, SMA40, today,
      initial_capital, broker, shares, position, cash, trade_log, notified,
      orders, i, pc, outputs, suspended>>

scan_vars == <<ticker_list, scan_pos, all_rows, final_messages>>

bot_vars ==
    <<script, market, submitted, trade_log_csv, telegrams, raised, invocations>>

signal_vars == <<indicator_df, simulated>>

csv_vars == <<csv_file, tradier_day, latest, printed>>

poll_vars ==
    <<updates, offset, result, polling, recent_tickers, replies, handled>>

open_vars == <<opener, opened, summaries, opener_exit>>

close_vars == <<closer, closed, alerts, closer_exit>>

vars ==
    <<simulator_vars, scan_vars, bot_vars, signal_vars, csv_vars, poll_vars,
      open_vars, close_vars>>

\* The programs are separate processes: while one runs, the state of the
\* others is as below and stays so.
NoScan ==
    /\ ticker_list = <<>>
    /\ scan_pos = 0
    /\ all_rows = <<>>
    /\ final_messages = <<>>

NoBot ==
    /\ script = ""
    /\ market = <<>>
    /\ submitted = <<>>
    /\ trade_log_csv = <<>>
    /\ telegrams = <<>>
    /\ raised = ""
    /\ invocations = 0

NoSignalBot ==
    /\ indicator_df = <<>>
    /\ simulated = <<>>

NoCsvUpdate ==
    /\ csv_file = [exists |-> FALSE, lines |-> <<>>]
    /\ tradier_day = <<>>
    /\ latest = <<>>
    /\ printed = <<>>

NoPolling ==
    /\ updates = <<>>
    /\ offset = 0
    /\ result = <<>>
    /\ polling = ""
    /\ recent_tickers = <<>>
    /\ replies = <<>>
    /\ handled = <<>>

NoOpener ==
    /\ opener = <<>>
    /\ opened = <<>>
    /\ summaries = <<>>
    /\ opener_exit = ""

NoCloser ==
    /\ closer = <<>>
    /\ closed = <<>>
    /\ alerts = <<>>
    /\ closer_exit = ""

(***************************************************************************)
(* Bounds of the model and constants of the program.                       *)
(***************************************************************************)
MaxTail == 4          \* rows after the flat prefix of a price series
LongPrefix == 47      \* flat rows of a series whose SMA window is filled
ShortPrefix == 37     \* flat rows of a series younger than the SMA window
TicksPerCent == 3     \* resolution of a price below the cent

slope_window == 6
EmaSpan == 20
SmaWindow == 40

Variants == {"dashboard", "scanner", "livebot"}
BasePrices == {12}
TailPrices == {6, 12, 13, 17}
RisePerRow == {2}
Capitals == {15, 42, 300}
Tickers == {"", "tqqq", "TQQQ"}
BrokerPositions == {0, 3}
PortfolioValues == {10, 100}
QuotePrices == {13}

(***************************************************************************)
(* Rationals as the floats of the code are read: exact values.             *)
(***************************************************************************)
NaN == <<0, 0>>

IsNaN(r) == r[2] = 0

RECURSIVE Gcd(_, _)
Gcd(a, b) == IF b = 0 THEN a ELSE Gcd(b, a % b)

Norm(r) ==
    LET g == Gcd(r[1], r[2]) IN <<r[1] \div g, r[2] \div g>>

Less_NaNAsZero(a, b) ==
    LET x == IF IsNaN(a) THEN <<0, 1>> ELSE a
        y == IF IsNaN(b) THEN <<0, 1>> ELSE b
    IN  \/ x[1] \div x[2] < y[1] \div y[2]
        \/ /\ x[1] \div x[2] = y[1] \div y[2]
           /\ (x[1] % x[2]) * y[2] < (y[1] % y[2]) * x[2]

\* a < b on floats: False when either side is NaN.  Whole parts are compared
\* first, so that the cross products stay small.
Less(a, b) ==
    /\ ~IsNaN(a)
    /\ ~IsNaN(b)
    /\ LET qa == a[1] \div a[2]
           qb == b[1] \div b[2]
       IN  \/ qa < qb
           \/ /\ qa = qb
              /\ (a[1] % a[2]) * b[2] < (b[1] % b[2]) * a[2]

\* price > x and price < x for a price in ticks
Gt(price, x) == Less(x, <<price, 1>>)
Lt(price, x) == Less(<<price, 1>>, x)

\* round(x, 2): to the nearest cent, an exact half to the even cent
Round2(x) ==
    LET r == x % TicksPerCent
        lo == x - r
        hi == lo + TicksPerCent
    IN  IF r = 0 THEN x
        ELSE IF 2 * r < TicksPerCent THEN lo
        ELSE IF 2 * r > TicksPerCent THEN hi
        ELSE IF (lo \div TicksPerCent) % 2 = 0 THEN lo ELSE hi

\* str(date): one string per date
DateStr(d) == <<"date", d>>

(***************************************************************************)
(* Indicator library: Series.ewm(span, adjust=False).mean() and            *)
(* Series.rolling(window).mean().                                          *)
(***************************************************************************)
EmaNext(prev, price, span) ==
    Norm(<<2 * price * prev[2] + (span - 1) * prev[1], (span + 1) * prev[2]>>)

RECURSIVE EwmFrom(_, _, _, _, _)
EwmFrom(c, span, n, acc, last) ==
    IF n > Len(c) THEN acc
    ELSE LET e == IF n = 1 THEN <<c[1], 1>> ELSE EmaNext(last, c[n], span)
         IN  EwmFrom(c, span, n + 1, Append(acc, e), e)

EwmMean(c, span) == EwmFrom(c, span, 1, <<>>, NaN)

RECURSIVE SumRange(_, _, _)
SumRange(c, lo, hi) == IF lo > hi THEN 0 ELSE c[hi] + SumRange(c, lo, hi - 1)

\* a rolling mean over the rows there are (min_periods = 1)
RollingMean_MinPeriodsOne(c, window) ==
    [f \in 1..Len(c) |->
        LET lo == IF f < window THEN 1 ELSE f - window + 1
        IN  Norm(<<SumRange(c, lo, f), f - lo + 1>>)]

RollingMean(c, window) ==
    [f \in 1..Len(c) |->
        IF f < window THEN NaN ELSE Norm(<<SumRange(c, f - window + 1, f), window>>)]

(***************************************************************************)
(* The filtered frame: df = df[df.index >= start].                         *)
(***************************************************************************)
Filtered(column) == SubSeq(column, first_row + 1, Len(column))

DfLen == Len(Close)
Row(k) == k + 1                      \* df.iloc[k] in a 1-based sequence

Date_Backwards(k) == first_row + DfLen - k

\* df.index[k].date().  Dates are numbered by trading day; the frame keeps
\* the rows in the order of the download, which is the order of the dates
\* unless the provider handed the last two rows over exchanged.
Date(k) ==
    LET f == first_row + k + 1
        n == download.prefix + MaxTail
    IN  IF download.swap /\ f >= n - 1 THEN 2 * n - 1 - f ELSE f

\* range(slope_window, len(df))
LoopIndices_FromOne(n) == 1..(n - 1)

LoopIndices(n) == slope_window..(n - 1)

(***************************************************************************)
(* The transition rule.                                                    *)
(***************************************************************************)
\* a + b on floats, kept exact
Plus(a, b) ==
    LET g == Gcd(a[2], b[2])
        l == (a[2] \div g) * b[2]
    IN  Norm(<<a[1] * (l \div a[2]) + b[1] * (l \div b[2]), l>>)

RECURSIVE SlopeSum(_, _)
SlopeSum(k, x) ==
    IF x < 0 THEN <<0, 1>>
    ELSE LET y == EMA20[Row(k - slope_window + x)]
         IN  Plus(SlopeSum(k, x - 1), <<(2 * x - (slope_window - 1)) * y[1], y[2]>>)

\* LinearRegression().fit(arange(slope_window), EMA20[k - slope_window : k])
\* .coef_[0][0]: the least-squares slope
ema_slope(k) ==
    LET t == SlopeSum(k, slope_window - 1)
    IN  Norm(<<t[1],
               t[2] * ((slope_window * (slope_window * slope_window - 1)) \div 6)>>)

\* the two predicates the loop computes at bar k and does not use
buy_condition_1(k) ==
    /\ Lt(Close[Row(k - 1)], EMA20[Row(k - 1)])
    /\ Gt(Close[Row(k)], EMA20[Row(k)])
    /\ Less(<<0, 1>>, ema_slope(k))

buy_condition_2(k) ==
    /\ Less(EMA20[Row(k - 1)], SMA40[Row(k - 1)])
    /\ Less(SMA40[Row(k)], EMA20[Row(k)])
    /\ Gt(Close[Row(k)], EMA20[Row(k)])
    /\ Gt(Close[Row(k)], SMA40[Row(k)])

BuyCondition_Confirmed(price, ema, sma) ==
    /\ Gt(price, ema)
    /\ Gt(price, sma)
    /\ buy_condition_1(i) \/ buy_condition_2(i)

BuyCondition_EmaOnly(price, ema, sma) == Gt(price, ema)

BuyCondition_NotBelow(price, ema, sma) ==
    ~IsNaN(sma) /\ ~Lt(price, ema) /\ ~Lt(price, sma)

BuyCondition(price, ema, sma) == Gt(price, ema) /\ Gt(price, sma)

SellCondition_PrevAbove(prev_price, prev_sma, price, sma) ==
    Gt(prev_price, prev_sma)

SellCondition(prev_price, prev_sma, price, sma) ==
    Gt(prev_price, prev_sma) /\ Lt(price, sma)

AffordableShares_AtLeastOne(cash_, price) ==
    IF cash_ \div price > 1 THEN cash_ \div price ELSE 1

AffordableShares(cash_, price) == cash_ \div price

CashAfterBuy_OneShare(cash_, n, price) == cash_ - price

CashAfterBuy(cash_, n, price) == cash_ - n * price

SellProceeds_OneShare(cash_, held, price) == cash_ + price

SellProceeds(cash_, held, price) == cash_ + held * price

calculate_shares(price, max_allocation) ==
    LET n == max_allocation \div price IN IF n > 1 THEN n ELSE 1

(***************************************************************************)
(* The simulator's own state, as a record, so that one bar is a function.  *)
(***************************************************************************)
Cur ==
    [position |-> position, cash |-> cash, trade_log |-> trade_log,
     notified |-> notified, orders |-> orders, aborted |-> FALSE]

\* Dashboard, one pass of the loop body (the BUY and SELL branches).
DashboardBar(s, k) ==
    LET price == Close[Row(k)]
        prev_price == Close[Row(k - 1)]
        ema == EMA20[Row(k)]
        sma == SMA40[Row(k)]
        prev_sma == SMA40[Row(k - 1)]
    IN  IF s.position = 0 /\ BuyCondition(price, ema, sma)
        THEN LET n == AffordableShares(s.cash, price)
             IN  IF n > 0
                 THEN [s EXCEPT
                         !.position = n,
                         !.cash = CashAfterBuy(s.cash, n, price),
                         !.trade_log = Append(@,
                             [Date |-> DateStr(Date(k)), Action |-> "BUY",
                              Price |-> Round2(price), Shares |-> n,
                              PortfolioValue |->
                                  Round2(CashAfterBuy(s.cash, n, price) + n * price)])]
                 ELSE s
        ELSE IF s.position > 0 /\ SellCondition(prev_price, prev_sma, price, sma)
        THEN [s EXCEPT
                !.cash = SellProceeds(s.cash, s.position, price),
                !.trade_log = Append(@,
                    [Date |-> DateStr(Date(k)), Action |-> "SELL",
                     Price |-> Round2(price), Shares |-> s.position,
                     PortfolioValue |->
                         Round2(SellProceeds(s.cash, s.position, price))]),
                !.position = 0]
        ELSE s

DashboardExit_None(s) == s

\* Dashboard, the final exit after the loop.  The position variable is left
\* as it is: the function returns right after.
DashboardExit(s) ==
    IF s.position > 0
    THEN LET final_price == Close[Len(Close)]
         IN  [s EXCEPT
                !.cash = SellProceeds(s.cash, s.position, final_price),
                !.trade_log = Append(@,
                    [Date |-> DateStr(Date(DfLen - 1)), Action |-> "SELL (EOD)",
                     Price |-> Round2(final_price), Shares |-> s.position,
                     PortfolioValue |->
                         Round2(SellProceeds(s.cash, s.position, final_price))])]
    ELSE s

SameDay_Always(k) == TRUE

\* Whether the same-day branch is taken for the bar at df.iloc[k].
SameDay(k) == Date(k) = today

\* Scanner and live bot: what happens to a same-day event before it is
\* logged.  notify_telegram swallows a failed send (sent = FALSE); the live
\* bot's place_order posts outside its try block, so a failed post raises.
Forward(s, action, price, qty, k, sent, accepted) ==
    IF ~SameDay(k) THEN s
    ELSE LET n == [s EXCEPT !.notified = Append(@,
                       [action |-> action, price |-> price, shares |-> qty,
                        sent |-> sent])]
         IN  IF variant = "livebot"
             THEN IF accepted
                  THEN [n EXCEPT !.orders = Append(@,
                           [side |-> IF action = "BUY" THEN "buy" ELSE "sell",
                            quantity |-> qty])]
                  ELSE [n EXCEPT !.aborted = TRUE]
             ELSE n

\* Scanner and live bot, one pass of the loop body.
SignalBar(s, k, sent, accepted) ==
    LET price == Close[Row(k)]
        prev_price == Close[Row(k - 1)]
        ema == EMA20[Row(k)]
        sma == SMA40[Row(k)]
        prev_sma == SMA40[Row(k - 1)]
    IN  IF s.position = 0 /\ BuyCondition(price, ema, sma)
        THEN LET f == Forward(s, "BUY", price, shares, k, sent, accepted)
             IN  IF f.aborted THEN f
                 ELSE [f EXCEPT
                         !.position = shares,
                         !.trade_log = Append(@,
                             [Date |-> DateStr(Date(k)), Action |-> "BUY",
                              Price |-> Round2(price), Shares |-> shares])]
        ELSE IF s.position > 0 /\ SellCondition(prev_price, prev_sma, price, sma)
        THEN LET f == Forward(s, "SELL", price, s.position, k, sent, accepted)
             IN  IF f.aborted THEN f
                 ELSE [f EXCEPT
                         !.trade_log = Append(@,
                             [Date |-> DateStr(Date(k)), Action |-> "SELL",
                              Price |-> Round2(price), Shares |-> s.position]),
                         !.position = 0]
        ELSE s

Bar(s, k, sent, accepted) ==
    IF variant = "dashboard" THEN DashboardBar(s, k)
    ELSE SignalBar(s, k, sent, accepted)

(***************************************************************************)
(* Inputs of a run.                                                        *)
(***************************************************************************)
\* Where the requested period starts in a download: the tail begins at
\* df.iloc[slope_window], or one row earlier (long histories).
\* A history with no prefix is all the provider has: either younger than
\* slope_window rows, or wholly older than the requested period.
FirstRows(d) ==
    IF d.prefix = LongPrefix
    THEN {d.prefix - slope_window, d.prefix - slope_window + 1}
    ELSE IF d.prefix = ShortPrefix
    THEN {d.prefix - slope_window}
    ELSE {0, MaxTail}

\* a flat prefix, then any closes
FlatDownloads ==
    [base : BasePrices, prefix : {LongPrefix, ShortPrefix}, rise : {0},
     swap : {FALSE}, tail : [1..MaxTail -> TailPrices]]

YoungDownloads ==
    [base : BasePrices, prefix : {0}, rise : {0}, swap : {FALSE},
     tail : [1..MaxTail -> BasePrices]]

\* The close of prefix row f of a series that rises every row: after the
\* first row the closes run (EmaSpan - 1) * rise / 2 above a line of slope
\* rise, which keeps every EMA20 value of the prefix a whole number.
PrefixClose(d, f) ==
    IF f = 1 \/ d.rise = 0 THEN d.base
    ELSE d.base + d.rise * (f - 1) + ((EmaSpan - 1) * d.rise) \div 2

\* tails that go on rising from the last row of a rising prefix
RisingTails(base, prefix, rise) ==
    LET top == PrefixClose([base |-> base, rise |-> rise], prefix)
    IN  {t \in [1..MaxTail -> (top + 1)..(top + MaxTail + 2)] :
            \A k \in 1..MaxTail : t[k] > (IF k = 1 THEN top ELSE t[k - 1])}

RisingDownloads ==
    UNION {[base : {b}, prefix : {p}, rise : {r}, swap : {FALSE},
            tail : RisingTails(b, p, r)] :
              <<b, p, r>> \in BasePrices \X {LongPrefix, ShortPrefix} \X RisePerRow}

Downloads == FlatDownloads \cup YoungDownloads \cup RisingDownloads

\* the same histories, handed over with the last two rows exchanged
UnorderedDownloads == {[d EXCEPT !.swap = TRUE] : d \in Downloads}

\* the Close column of a download
Series(d) ==
    [f \in 1..(d.prefix + MaxTail) |->
        IF f <= d.prefix THEN PrefixClose(d, f) ELSE d.tail[f - d.prefix]]

NoBroker == [position |-> 0, quote_ok |-> TRUE, quote |-> 0, equity |-> 0]

\* Every reported position and equity with a quote, and one start-up at which
\* get_current_price fails and returns None.
Brokers ==
    [position : BrokerPositions, quote_ok : {TRUE}, quote : QuotePrices,
     equity : PortfolioValues]
    \cup {[position |-> 0, quote_ok |-> FALSE, quote |-> 0, equity |-> 100]}

\* ticker.upper()
Upper(t) == IF t = "tqqq" THEN "TQQQ" ELSE t

InitFrom(downloads) ==
    /\ variant \in Variants
    /\ ticker \in (IF variant = "dashboard" THEN Tickers ELSE {"TQQQ"})
    /\ download \in downloads
    \* the quote the live bot sizes its order with is of the order of the closes
    /\ variant = "livebot" => download.rise = 0
    /\ first_row \in FirstRows(download)
    \* the last row is today's bar, or (scanner) the data ends yesterday
    /\ today \in (IF variant = "scanner"
                  THEN {download.prefix + MaxTail, download.prefix + MaxTail + 1}
                  ELSE {download.prefix + MaxTail})
    /\ initial_capital \in (IF variant = "dashboard" THEN Capitals ELSE {0})
    /\ broker \in (IF variant = "livebot" THEN Brokers ELSE {NoBroker})
    /\ Close = <<>>
    /\ EMA20 = <<>>
    /\ SMA40 = <<>>
    /\ shares = 0
    /\ position = 0
    /\ cash = 0
    /\ trade_log = <<>>
    /\ notified = <<>>
    /\ orders = <<>>
    /\ i = 0
    /\ pc = "start"
    /\ outputs = <<>>
    /\ suspended = <<>>
    /\ NoScan
    /\ NoBot
    /\ NoSignalBot
    /\ NoCsvUpdate
    /\ NoPolling
    /\ NoOpener
    /\ NoCloser

\* no simulation is running
InitIdle ==
    /\ variant = "dashboard"
    /\ ticker = ""
    /\ download = [base |-> 12, prefix |-> 0, rise |-> 0, swap |-> FALSE,
                   tail |-> [k \in 1..MaxTail |-> 12]]
    /\ first_row = 0
    /\ today = MaxTail
    /\ initial_capital = 0
    /\ broker = NoBroker
    /\ Close = <<>>
    /\ EMA20 = <<>>
    /\ SMA40 = <<>>
    /\ shares = 0
    /\ position = 0
    /\ cash = 0
    /\ trade_log = <<>>
    /\ notified = <<>>
    /\ orders = <<>>
    /\ i = 0
    /\ pc = "idle"
    /\ outputs = <<>>
    /\ suspended = <<>>

Init == InitFrom(Downloads)

(***************************************************************************)
(* Operations.                                                             *)
(***************************************************************************)
\* Download, indicators, filter, initial position and order size.
Setup ==
    /\ UNCHANGED <<scan_vars, bot_vars, signal_vars, csv_vars,
                 poll_vars, open_vars, close_vars>>
    /\ pc = "start"
    /\ variant = "dashboard" => ticker # ""
    /\ Close' = Filtered(Series(download))
    /\ EMA20' = Filtered(EwmMean(Series(download), EmaSpan))
    /\ SMA40' = Filtered(RollingMean(Series(download), SmaWindow))
    /\ position' = IF variant = "livebot" THEN broker.position ELSE 0
    /\ cash' = IF variant = "dashboard" THEN initial_capital ELSE 0
    /\ shares' = IF variant = "livebot" /\ broker.quote_ok
                 THEN calculate_shares(10 * broker.quote, 9 * broker.equity)
                 ELSE IF variant = "scanner" THEN 1 ELSE 0
    /\ trade_log' = <<>>
    /\ LET indices == LoopIndices(Len(Series(download)) - first_row)
       IN  /\ i' = IF indices = {} THEN slope_window
                    ELSE CHOOSE k \in indices : \A m \in indices : k <= m
           /\ pc' = IF variant = "livebot" /\ ~broker.quote_ok THEN "aborted"
                    ELSE IF indices # {} THEN "loop" ELSE "final"
    /\ UNCHANGED <<variant, ticker, download, first_row, today, initial_capital,
                   broker, notified, orders, outputs, suspended>>

\* One pass of for i in range(slope_window, len(df)).
Step ==
    /\ UNCHANGED <<scan_vars, bot_vars, signal_vars, csv_vars,
                 poll_vars, open_vars, close_vars>>
    /\ pc = "loop"
    /\ \E sent \in BOOLEAN, accepted \in BOOLEAN :
          LET s == Bar(Cur, i, sent, accepted)
          IN  /\ position' = s.position
              /\ cash' = s.cash
              /\ trade_log' = s.trade_log
              /\ notified' = s.notified
              /\ orders' = s.orders
              /\ pc' = IF s.aborted THEN "aborted"
                       ELSE IF i + 1 < DfLen THEN "loop" ELSE "final"
    /\ i' = i + 1
    /\ UNCHANGED <<variant, ticker, download, first_row, Close, EMA20, SMA40, today,
                   initial_capital, broker, shares, outputs, suspended>>

\* Dashboard: the final exit and the return.
FinalExit ==
    /\ UNCHANGED <<scan_vars, bot_vars, signal_vars, csv_vars,
                 poll_vars, open_vars, close_vars>>
    /\ pc = "final"
    /\ variant = "dashboard"
    /\ LET s == DashboardExit(Cur)
       IN  /\ cash' = s.cash
           /\ trade_log' = s.trade_log
    /\ pc' = "done"
    /\ UNCHANGED <<variant, ticker, download, first_row, Close, EMA20, SMA40, today,
                   initial_capital, broker, shares, position, notified, orders, i,
                   outputs, suspended>>

\* Scanner and live bot: the return, with no exit.
Return ==
    /\ UNCHANGED <<scan_vars, bot_vars, signal_vars, csv_vars,
                 poll_vars, open_vars, close_vars>>
    /\ pc = "final"
    /\ variant # "dashboard"
    /\ pc' = "done"
    /\ UNCHANGED <<variant, ticker, download, first_row, Close, EMA20, SMA40, today,
                   initial_capital, broker, shares, position, cash, trade_log,
                   notified, orders, i, outputs, suspended>>

\* f"{x:.2f}" of a fraction counted in hundredths: the nearest whole number
\* of hundredths, an exact half to the even one
Format2(r) ==
    LET q == r[1] \div r[2]
        m == r[1] % r[2]
    IN  IF 2 * m < r[2] THEN q
        ELSE IF 2 * m > r[2] THEN q + 1
        ELSE IF q % 2 = 0 THEN q ELSE q + 1

\* a summary whose percentage is final cash over initial capital
Summary_ReturnOfFinal(initial, final) ==
    [Initial |-> Round2(initial), Final |-> Round2(final),
     Profit |-> Round2(final - initial),
     Return |-> Format2(<<final * 10000, initial>>)]

\* The summary line: Initial, Final, Profit = cash - initial_capital and
\* (cash / initial_capital - 1) * 100, each formatted with two decimals.
\* Return is in hundredths of a percent.
Summary(initial, final) ==
    LET ratio == Norm(<<final, initial>>)
        growth == <<ratio[1] - ratio[2], ratio[2]>>
    IN  [Initial |-> Round2(initial), Final |-> Round2(final),
         Profit |-> Round2(final - initial),
         Return |-> Format2(<<growth[1] * 10000, growth[2]>>)]

\* update_table with an empty ticker: the early return, of three values.
Reject ==
    /\ UNCHANGED <<scan_vars, bot_vars, signal_vars, csv_vars,
                 poll_vars, open_vars, close_vars>>
    /\ pc = "start"
    /\ variant = "dashboard"
    /\ ticker = ""
    /\ outputs' = <<<<>>, <<>>, "Please enter a valid ticker.">>
    /\ pc' = "shown"
    /\ UNCHANGED <<variant, ticker, download, first_row, Close, EMA20, SMA40, today,
                   initial_capital, broker, shares, position, cash, trade_log,
                   notified, orders, i, suspended>>

\* update_table after simulate_strategy returned: the chart is drawn from the
\* column ('Close', ticker) of a frame whose column is ('Close', ticker.upper());
\* a KeyError is caught and shown as the summary.
Respond ==
    /\ UNCHANGED <<scan_vars, bot_vars, signal_vars, csv_vars,
                 poll_vars, open_vars, close_vars>>
    /\ pc = "done"
    /\ variant = "dashboard"
    /\ outputs' = IF ticker = Upper(ticker)
                  THEN <<trade_log, <<"Date", "Action", "Price", "Shares",
                                      "Portfolio Value">>,
                         Summary(initial_capital, cash), "figure">>
                  ELSE <<<<>>, <<>>, "Error", "empty figure">>
    /\ pc' = "shown"
    /\ UNCHANGED <<variant, ticker, download, first_row, Close, EMA20, SMA40, today,
                   initial_capital, broker, shares, position, cash, trade_log,
                   notified, orders, i, suspended>>

Next == Setup \/ Step \/ FinalExit \/ Return \/ Reject \/ Respond

Spec == Init /\ [][Next]_vars

(***************************************************************************)
(* Two invocations of simulate_strategy that a caller runs at once.  The   *)
(* variables above hold the locals of the invocation that is running; the  *)
(* locals of the other one are parked in suspended, and Switch hands the   *)
(* processor over.  The clock and the notifier are shared.                 *)
(***************************************************************************)
Locals ==
    [variant |-> variant, ticker |-> ticker, download |-> download,
     first_row |-> first_row, Close |-> Close, EMA20 |-> EMA20, SMA40 |-> SMA40,
     initial_capital |-> initial_capital, broker |-> broker, shares |-> shares,
     position |-> position, cash |-> cash, trade_log |-> trade_log, i |-> i,
     pc |-> pc, outputs |-> outputs]

OwnLog_Shared(r) == trade_log

\* trade_log is a local of the invocation (trade_log = [] in its prologue)
OwnLog(r) == r.trade_log

Switch ==
    /\ UNCHANGED <<scan_vars, bot_vars, signal_vars, csv_vars,
                 poll_vars, open_vars, close_vars>>
    /\ suspended # <<>>
    /\ LET r == Head(suspended)
       IN  /\ variant' = r.variant
           /\ ticker' = r.ticker
           /\ download' = r.download
           /\ first_row' = r.first_row
           /\ Close' = r.Close
           /\ EMA20' = r.EMA20
           /\ SMA40' = r.SMA40
           /\ initial_capital' = r.initial_capital
           /\ broker' = r.broker
           /\ shares' = r.shares
           /\ position' = r.position
           /\ cash' = r.cash
           /\ trade_log' = OwnLog(r)
           /\ i' = r.i
           /\ pc' = r.pc
           /\ outputs' = r.outputs
    /\ suspended' = <<Locals>>
    /\ UNCHANGED <<today, notified, orders>>

\* histories of two tickers over the same days
TwoRunDownloads ==
    {d \in FlatDownloads :
        d.prefix = LongPrefix /\ \A k \in 1..MaxTail : d.tail[k] \in {6, 13}}

PeerDownloads ==
    {d \in TwoRunDownloads : \A k \in 2..MaxTail : d.tail[k] # d.tail[k - 1]}

FreshRun(v, t, d) ==
    [variant |-> v, ticker |-> t, download |-> d,
     first_row |-> d.prefix - slope_window, Close |-> <<>>, EMA20 |-> <<>>,
     SMA40 |-> <<>>, initial_capital |-> IF v = "dashboard" THEN 42 ELSE 0,
     broker |-> NoBroker, shares |-> 0, position |-> 0, cash |-> 0,
     trade_log |-> <<>>, i |-> 0, pc |-> "start", outputs |-> <<>>]

InitTwoRuns ==
    /\ NoScan
    /\ NoBot
    /\ NoSignalBot
    /\ NoCsvUpdate
    /\ NoPolling
    /\ NoOpener
    /\ NoCloser
    /\ today = LongPrefix + MaxTail
    /\ notified = <<>>
    /\ orders = <<>>
    /\ \E v \in {"dashboard", "scanner"}, d \in PeerDownloads :
          suspended = <<FreshRun(v, "SOXL", d)>>
    /\ \E v \in {"dashboard", "scanner"}, d \in TwoRunDownloads :
          LET r == FreshRun(v, "TQQQ", d)
          IN  /\ variant = r.variant
              /\ ticker = r.ticker
              /\ download = r.download
              /\ first_row = r.first_row
              /\ Close = r.Close
              /\ EMA20 = r.EMA20
              /\ SMA40 = r.SMA40
              /\ initial_capital = r.initial_capital
              /\ broker = r.broker
              /\ shares = r.shares
              /\ position = r.position
              /\ cash = r.cash
              /\ trade_log = r.trade_log
              /\ i = r.i
              /\ pc = r.pc
              /\ outputs = r.outputs

NextTwoRuns == Setup \/ Step \/ FinalExit \/ Return \/ Respond \/ Switch

SpecTwoRuns == InitTwoRuns /\ [][NextTwoRuns]_vars

\* The same program behind a provider that does not hand the rows over in
\* date order.
InitUnordered == InitFrom(UnorderedDownloads)

SpecUnordered == InitUnordered /\ [][Next]_vars

(***************************************************************************)
(* Vocabulary of the properties.                                           *)
(***************************************************************************)
Sells == {"SELL", "SELL (EOD)"}

Last(q) == q[Len(q)]

\* the bar a record was logged at, read back from its Date field
RecordRow(r) == r.Date[2] - first_row

\* the loop is at df.iloc[i] and the position is flat / long
AtBar == pc = "loop"

BarPrice == Close[Row(i)]

\* close[k] > ema[k] and close[k] > sma[k], written out
AboveBothAt(k) ==
    /\ Less(EMA20[k + 1], <<Close[k + 1], 1>>)
    /\ Less(SMA40[k + 1], <<Close[k + 1], 1>>)

PriceAboveBoth == AboveBothAt(i)

\* close[i-1] > sma[i-1] and close[i] < sma[i], written out
CrossedBelowSma ==
    /\ Less(SMA40[Row(i - 1)], <<Close[Row(i - 1)], 1>>)
    /\ Less(<<BarPrice, 1>>, SMA40[Row(i)])

Appended(rec) == trade_log' = Append(trade_log, rec)

\* C1: in every trade log the actions alternate BUY, SELL, BUY, ... starting
\* with a BUY (a SELL only from a held position, a BUY only from a flat one).
C1_StrictAlternation ==
    \A k \in 1..Len(trade_log) :
        IF k % 2 = 1 THEN trade_log[k].Action = "BUY"
        ELSE trade_log[k].Action \in Sells

\* C2 as claimed: dashboard, FLAT at bar i, close > ema and close > sma (and a
\* share is affordable): shares = floor(cash / close), cash falls by
\* shares * close, held shares become shares, and the BUY record carries
\* portfolio_value = cash + shares * close.
C2_BuyCarriesExactValue ==
    [][ (AtBar /\ variant = "dashboard" /\ position = 0 /\ PriceAboveBoth
           /\ cash \div BarPrice > 0) =>
          LET n == cash \div BarPrice
          IN  /\ position' = n
              /\ cash' = cash - n * BarPrice
              /\ Len(trade_log') = Len(trade_log) + 1
              /\ Last(trade_log').Action = "BUY"
              /\ Last(trade_log').PortfolioValue = cash' + n * BarPrice ]_vars

\* C2, amended: dashboard, FLAT at bar i: a BUY is emitted exactly when
\* close > ema and close > sma and floor(cash / close) > 0; then
\* shares = floor(cash / close), cash falls by shares * close, held shares
\* become shares (LONG), and the record carries the price and the portfolio
\* value cash + shares * close, each rounded to the cent.
C2_BuyTransition ==
    [][ (AtBar /\ variant = "dashboard" /\ position = 0) =>
          LET n == cash \div BarPrice
          IN  IF PriceAboveBoth /\ n > 0
              THEN /\ position' = n
                   /\ position' > 0
                   /\ cash' = cash - n * BarPrice
                   /\ Appended([Date |-> DateStr(Date(i)), Action |-> "BUY",
                                Price |-> Round2(BarPrice), Shares |-> n,
                                PortfolioValue |-> Round2(cash' + n * BarPrice)])
              ELSE /\ position' = 0
                   /\ trade_log' = trade_log ]_vars

C2_Witness ==
    /\ variant = "dashboard"
    /\ Len(trade_log) = 3
    /\ trade_log[3].Action = "BUY"
    /\ trade_log[3].PortfolioValue # cash + position * Close[RecordRow(trade_log[3])]
    /\ position = trade_log[3].Shares
    /\ position > 1

\* C3 as claimed: dashboard, LONG at bar i, close[i-1] > sma[i-1] and
\* close[i] < sma[i]: cash rises by held * close, the SELL record carries
\* shares = held and portfolio_value = cash after the sale, and held shares
\* become 0.
C3_SellCarriesExactValue ==
    [][ (AtBar /\ variant = "dashboard" /\ position > 0 /\ CrossedBelowSma) =>
          /\ cash' = cash + position * BarPrice
          /\ Len(trade_log') = Len(trade_log) + 1
          /\ Last(trade_log').Action = "SELL"
          /\ Last(trade_log').Shares = position
          /\ Last(trade_log').PortfolioValue = cash'
          /\ position' = 0 ]_vars

\* C3, amended: dashboard and scanner, LONG at bar i: a SELL is emitted
\* exactly when close[i-1] > sma[i-1] and close[i] < sma[i]; then (dashboard)
\* cash rises by held * close, the record carries shares = held (the number
\* of the preceding BUY) and, in the dashboard, the price and the cash after
\* the sale, each rounded to the cent, and held shares become 0.
C3_SellAction ==
    (AtBar /\ variant \in {"dashboard", "scanner"} /\ position > 0) =>
        IF CrossedBelowSma
        THEN /\ position' = 0
             /\ Last(trade_log).Action = "BUY"
             /\ Last(trade_log).Shares = position
             /\ IF variant = "dashboard"
                THEN /\ cash' = cash + position * BarPrice
                     /\ Appended([Date |-> DateStr(Date(i)), Action |-> "SELL",
                                  Price |-> Round2(BarPrice), Shares |-> position,
                                  PortfolioValue |-> Round2(cash')])
                ELSE Appended([Date |-> DateStr(Date(i)), Action |-> "SELL",
                               Price |-> Round2(BarPrice), Shares |-> position])
        ELSE /\ position' = position
             /\ trade_log' = trade_log
             /\ cash' = cash

\* C3: every step of every run is a SELL transition as described by C3_SellAction,
\* or leaves the C3 case (LONG at a processed bar) untouched.
C3_SellTransition == [][C3_SellAction]_vars

C3_Witness ==
    /\ variant = "dashboard"
    /\ Len(trade_log) = 2
    /\ trade_log[2].Action = "SELL"
    /\ trade_log[2].Shares = trade_log[1].Shares
    /\ trade_log[2].Shares > 1
    /\ position = 0
    /\ cash > 0
    /\ cash < initial_capital

ClosedOut(log) ==
    \A k \in 1..Len(log) :
        log[k].Action = "BUY" => (k < Len(log) /\ log[k + 1].Action \in Sells)

C4_ExitAction ==
    (pc = "final" /\ variant = "dashboard") =>
        /\ position' = position
        /\ IF position > 0
           THEN /\ cash' = cash + position * Close[Len(Close)]
                /\ Appended([Date |-> DateStr(first_row + Len(Close)),
                             Action |-> "SELL (EOD)",
                             Price |-> Round2(Close[Len(Close)]),
                             Shares |-> position,
                             PortfolioValue |-> Round2(cash')])
           ELSE cash' = cash /\ trade_log' = trade_log

C5_NeverOverspends ==
    /\ position >= 0
    /\ variant = "dashboard" => cash >= 0
    /\ variant = "livebot" =>
          \A k \in 1..Len(trade_log) :
              trade_log[k].Action = "BUY" =>
                  trade_log[k].Shares * Close[RecordRow(trade_log[k])]
                      <= broker.equity

\* C6: every run starts FLAT, with cash = initial_capital where cash is kept,
\* whatever position the brokerage reports, and so its first event is a BUY.
C6_StartsFlat ==
    /\ (pc \in {"loop", "final"} /\ i = slope_window) =>
          /\ position = 0
          /\ variant = "dashboard" => cash = initial_capital
    /\ trade_log # <<>> => trade_log[1].Action = "BUY"

(***************************************************************************)
(* Cash deltas read back from a trade log.                                 *)
(***************************************************************************)
Sign(rec) == IF rec.Action = "BUY" THEN -1 ELSE 1

RECURSIVE RecordedDelta(_, _)
RecordedDelta(log, k) ==
    IF k = 0 THEN 0
    ELSE RecordedDelta(log, k - 1) + Sign(log[k]) * log[k].Shares * log[k].Price

RECURSIVE ExactDelta(_, _)
ExactDelta(log, k) ==
    IF k = 0 THEN 0
    ELSE ExactDelta(log, k - 1)
            + Sign(log[k]) * log[k].Shares * Close[RecordRow(log[k])]

RECURSIVE TotalShares(_, _)
TotalShares(log, k) ==
    IF k = 0 THEN 0 ELSE TotalShares(log, k - 1) + log[k].Shares

Abs(x) == IF x < 0 THEN -x ELSE x

\* C7 as claimed: the cash deltas of the records (-shares * price per BUY,
\* +shares * price per SELL and SELL (EOD)) sum to final_cash - initial_capital.
C7_RoundTrip ==
    (pc = "done" /\ variant = "dashboard") =>
        RecordedDelta(trade_log, Len(trade_log)) = cash - initial_capital

\* C7, amended: with each record's price taken as the bar's unrounded close the
\* deltas sum to final_cash - initial_capital exactly; with the recorded
\* prices (rounded to the cent) the sum is off by at most half a cent per
\* share traded.
C7_RoundTripUpToRounding ==
    (pc = "done" /\ variant = "dashboard") =>
        /\ ExactDelta(trade_log, Len(trade_log)) = cash - initial_capital
        /\ 2 * Abs(RecordedDelta(trade_log, Len(trade_log))
                     - (cash - initial_capital))
              <= TicksPerCent * TotalShares(trade_log, Len(trade_log))

C7_Witness ==
    /\ pc = "done"
    /\ variant = "dashboard"
    /\ Len(trade_log) = 4
    /\ RecordedDelta(trade_log, 4) # cash - initial_capital
    /\ cash # initial_capital

\* C8: dashboard, FLAT, the BUY condition holds at bar i and
\* floor(cash / close) <= 0: nothing changes (cash, held shares, trade log),
\* nothing is raised, and the loop goes on to bar i + 1.
C8_NoOpAction ==
    (AtBar /\ variant = "dashboard" /\ position = 0 /\ PriceAboveBoth
       /\ cash \div BarPrice <= 0) =>
        /\ cash' = cash
        /\ position' = position
        /\ trade_log' = trade_log
        /\ i' = i + 1
        /\ pc' = IF i + 1 < Len(Close) THEN "loop" ELSE "final"

\* C8: every step taken while FLAT with the price condition true and
\* floor(cash / close) = 0 changes neither position, cash nor trade log.
C8_InsufficientCapitalNoOp == [][C8_NoOpAction]_vars

\* a bar was passed over for lack of cash, and a later bar bought
C8_Witness ==
    /\ variant = "dashboard"
    /\ Len(trade_log) = 1
    /\ trade_log[1].Action = "BUY"
    /\ \E k \in slope_window..(RecordRow(trade_log[1]) - 2) :
          /\ AboveBothAt(k)
          /\ initial_capital \div Close[k + 1] = 0

\* C9: scanner and live bot: the notifier is called once for each event dated
\* today, while its bar is processed (the call is there when the record is),
\* and for no event dated otherwise.  A run the live bot's order post aborts
\* has made the call and logged nothing.  The dashboard forwards nothing.
TodaysRecords == {k \in 1..Len(trade_log) : trade_log[k].Date = DateStr(today)}

C9_SameDayForwardedOnce ==
    /\ variant = "dashboard" => notified = <<>>
    /\ variant \in {"scanner", "livebot"} =>
          /\ Cardinality(TodaysRecords) <= 1
          /\ IF pc = "aborted"
             THEN TodaysRecords = {} /\ Len(notified) <= 1
             ELSE Len(notified) = Cardinality(TodaysRecords)
          /\ \A k \in TodaysRecords :
                /\ notified[1].action = trade_log[k].Action
                /\ notified[1].shares = trade_log[k].Shares
                /\ notified[1].price = Close[RecordRow(trade_log[k])]
          /\ notified # <<>> =>
                /\ today - first_row \in 1..Len(Close)
                /\ i >= today - first_row
                /\ notified[1].price = Close[today - first_row]

C9_Witness ==
    /\ variant = "scanner"
    /\ Len(trade_log) = 3
    /\ trade_log[3].Date = DateStr(today)
    /\ trade_log[2].Date # DateStr(today)
    /\ Len(notified) = 1
    /\ notified[1].action = "BUY"

(***************************************************************************)
(* The run in which every send and every order post succeeds.              *)
(***************************************************************************)
StartState ==
    [position |-> IF variant = "livebot" THEN broker.position ELSE 0,
     cash |-> IF variant = "dashboard" THEN initial_capital ELSE 0,
     trade_log |-> <<>>, notified |-> <<>>, orders |-> <<>>,
     aborted |-> FALSE]

RECURSIVE RunFrom(_, _)
RunFrom(s, k) ==
    IF k >= Len(Close) THEN s ELSE RunFrom(Bar(s, k, TRUE, TRUE), k + 1)

UndisturbedLog == RunFrom(StartState, slope_window).trade_log

\* C10: a failure while a same-day event is forwarded never aborts the run:
\* the run completes with the trade log of the run in which forwarding
\* succeeded.
C10_ForwardingFailureHarmless ==
    (variant \in {"scanner", "livebot"} /\ broker.quote_ok
       /\ pc \in {"done", "aborted"}) =>
        /\ pc = "done"
        /\ trade_log = UndisturbedLog

\* C11: when the provider has no row in the requested period the run fails
\* (DataUnavailable) and produces no trade log and no summary: a run that
\* returns has a frame with data.
C11_NoDataFails == pc = "done" => DfLen > 0

C12_SkipAction ==
    (AtBar /\ IsNaN(SMA40[Row(i)])) =>
        /\ position' = position
        /\ cash' = cash
        /\ trade_log' = trade_log
        /\ notified' = notified
        /\ orders' = orders
        /\ i' = i + 1
        /\ pc' = IF i + 1 < DfLen THEN "loop" ELSE "final"

\* C12: a bar whose SMA40 is undefined produces no BUY and no SELL, leaves
\* cash and held shares as they are, is not evaluated as if the SMA were
\* zero, and does not abort the run: the loop goes on to the next bar.
C12_UndefinedBarSkipped == [][C12_SkipAction]_vars

\* a bar without SMA40 whose close is above EMA20 (and above zero) was passed
\* with cash for a share at hand, and a later bar with SMA40 bought
C12_Witness ==
    /\ variant = "dashboard"
    /\ pc = "done"
    /\ trade_log # <<>>
    /\ trade_log[1].Action = "BUY"
    /\ ~IsNaN(SMA40[RecordRow(trade_log[1])])
    /\ \E k \in slope_window..(RecordRow(trade_log[1]) - 2) :
          /\ IsNaN(SMA40[Row(k)])
          /\ Gt(Close[Row(k)], EMA20[Row(k)])
          /\ initial_capital \div Close[Row(k)] > 0

\* every close of the download is the same
ConstantSeries ==
    /\ download.rise = 0
    /\ \A k \in 1..MaxTail : download.tail[k] = download.base

\* C13: on a constant close series, of any length, no BUY ever fires: the
\* trade log stays empty and the cash stays the initial capital.
C13_ConstantSeriesNoTrade ==
    ConstantSeries =>
        /\ trade_log = <<>>
        /\ notified = <<>>
        /\ (variant = "dashboard" /\ pc # "start" /\ ticker # "") =>
              cash = initial_capital

C13_Witness ==
    /\ ConstantSeries
    /\ variant = "dashboard"
    /\ pc = "done"
    /\ download.prefix = LongPrefix
    /\ ~IsNaN(SMA40[Len(SMA40)])
    /\ initial_capital \div Close[Len(Close)] > 0
    /\ i = DfLen
    /\ cash = initial_capital

\* every close of the download is above the one before, and the download
\* fills the SMA window
RisingSeries ==
    LET c == Series(download)
    IN  /\ Len(c) >= SmaWindow
        /\ \A f \in 2..Len(c) : c[f] > c[f - 1]

\* the first processed bar with close > ema and close > sma
FirstAbove ==
    CHOOSE k \in slope_window..(DfLen - 1) :
        /\ AboveBothAt(k)
        /\ \A m \in slope_window..(k - 1) : ~AboveBothAt(m)

OneBuyThenExit ==
    /\ Len(trade_log) = 2
    /\ trade_log[1].Action = "BUY"
    /\ trade_log[1].Date = DateStr(Date(FirstAbove))
    /\ trade_log[2].Action = "SELL (EOD)"
    /\ trade_log[2].Date = DateStr(Date(DfLen - 1))
    /\ trade_log[2].Shares = trade_log[1].Shares

\* C14 as claimed: on a strictly rising series that clears the SMA window
\* exactly one BUY fires, at the first bar with close > ema and close > sma,
\* no SELL fires, and the run ends with the forced SELL (EOD) at the last bar.
C14_RisingBuysOnce ==
    (variant = "dashboard" /\ pc = "done" /\ RisingSeries) => OneBuyThenExit

\* C14, amended: the same, provided the capital buys at least one share at
\* that first bar; if it does not, no BUY fires at all and the trade log is
\* empty.
C14_RisingBuysOnceIfAffordable ==
    (variant = "dashboard" /\ pc = "done" /\ RisingSeries) =>
        IF initial_capital \div Close[Row(FirstAbove)] > 0
        THEN OneBuyThenExit
        ELSE trade_log = <<>> /\ cash = initial_capital

\* a rising run that bought later than at its first processed bar and
\* before its last, and was closed out by the forced exit
C14_Witness ==
    /\ variant = "dashboard"
    /\ pc = "done"
    /\ RisingSeries
    /\ OneBuyThenExit
    /\ FirstAbove > slope_window
    /\ FirstAbove < DfLen - 1
    /\ cash > initial_capital

Chronological ==
    \A k \in 2..Len(trade_log) : trade_log[k - 1].Date[2] <= trade_log[k].Date[2]

C15_AppendAction ==
    IF pc # "start" /\ (position' # position \/ cash' # cash)
    THEN /\ Len(trade_log') = Len(trade_log) + 1
         /\ SubSeq(trade_log', 1, Len(trade_log)) = trade_log
    ELSE trade_log' = trade_log

\* C15: the trade log is append-only and chronological: a step that executes
\* an action (changes held shares or cash) appends exactly one record, any
\* other step leaves the log as it is, earlier records are never changed,
\* and the dates of the records never decrease along the log.
C15_AppendOnlyChronological == []Chronological /\ [][C15_AppendAction]_vars

\* a log of four records whose last two, a BUY at the last bar and the
\* forced exit, carry the same date
C15_Witness ==
    /\ variant = "dashboard"
    /\ pc = "done"
    /\ Len(trade_log) = 4
    /\ trade_log[1].Date[2] < trade_log[2].Date[2]
    /\ trade_log[2].Date[2] < trade_log[3].Date[2]
    /\ trade_log[3].Date = trade_log[4].Date

\* C16: the bars are processed in strictly increasing date order, with no
\* date twice, in whatever order the provider returned the rows (the series
\* is sorted again before the indicators are computed and the loop walks it).
C16_ProcessedInDateOrder ==
    \A k \in (slope_window + 1)..(DfLen - 1) : Date(k - 1) < Date(k)

\* a run that is over: it returned (the dashboard's callback answered) or
\* it raised
Terminal ==
    \/ pc \in {"shown", "aborted"}
    \/ pc = "done" /\ variant # "dashboard"

StageOf(p) ==
    CASE p = "start" -> 0
      [] p = "loop" -> 1
      [] p = "final" -> 2
      [] p = "done" -> 3
      [] OTHER -> 4

\* what every step of a run increases, and what no run can raise for ever
Progress(p, k) == StageOf(p) * (Len(Series(download)) + 1) + k

C17_Indices ==
    /\ pc = "loop" => i \in slope_window..(DfLen - 1)
    /\ (pc \in {"final", "done"} \/ (pc = "shown" /\ ticker # "")) =>
          i = (IF DfLen > slope_window THEN DfLen ELSE slope_window)
    /\ \A k \in 1..Len(trade_log) :
          RecordRow(trade_log[k]) - 1 \in slope_window..(DfLen - 1)

\* A run that is not over can take a step.  (A run that has not started
\* always can: Setup and Reject share the one guard pc = "start".)
C17_NotStuck ==
    \/ Terminal
    \/ pc = "start"
    \/ ENABLED (Step \/ FinalExit \/ Return \/ Respond)

C17_Advance ==
    /\ Progress(pc', i') > Progress(pc, i)
    /\ pc = "loop" => i' = i + 1

\* C17: the rule is evaluated once per index from slope_window to the last,
\* in increasing order (the loop index rises by one per step, and a run that
\* returns has passed every index); no record is logged for an index below
\* slope_window; and every run stops: each step raises a bounded measure, and
\* a run that is not over can take a step.
C17_EachIndexOnceThenStop ==
    /\ [](C17_Indices /\ C17_NotStuck)
    /\ [][C17_Advance]_vars

\* the bar at index slope_window - 1 had the close above both averages and a
\* share was affordable, and the first record is the BUY at index slope_window
C17_Witness ==
    /\ variant = "dashboard"
    /\ pc = "done"
    /\ i = DfLen
    /\ AboveBothAt(slope_window - 1)
    /\ initial_capital \div Close[Row(slope_window - 1)] > 0
    /\ trade_log # <<>>
    /\ RecordRow(trade_log[1]) = Row(slope_window)

\* what the running invocation returns when it runs alone
AloneResult ==
    LET s == RunFrom(StartState, slope_window)
    IN  IF variant = "dashboard" THEN DashboardExit(s) ELSE s

C19_GateAction ==
    (AtBar /\ variant \in {"dashboard", "scanner"} /\ position = 0) =>
        IF PriceAboveBoth /\ (variant = "dashboard" => cash \div BarPrice > 0)
        THEN /\ Len(trade_log') = Len(trade_log) + 1
             /\ Last(trade_log').Action = "BUY"
             /\ position' > 0
        ELSE /\ trade_log' = trade_log
             /\ position' = 0

C20_CallbackReturnsFourOutputs ==
    pc = "shown" =>
        /\ Len(outputs) = 4
        /\ ticker # Upper(ticker) => outputs[3] = "Error"

\* the sum of the n closes that end at row f of column c
TrailingSum(c, f, n) ==
    LET S[m \in 0..n] == IF m = 0 THEN 0 ELSE S[m - 1] + c[f - m + 1]
    IN  S[n]

\* C21: the SMA column has the length of the closes, is undefined at every
\* index below window - 1 and is the arithmetic mean of the trailing `window`
\* closes at every other index; the EMA column is defined at every index and
\* starts at the first close exactly.  Stated of the columns of every
\* download (they depend on the download alone, so once per download: at the
\* start of the scanner's run on it), and of the filtered frame of every run
\* as Setup leaves it; no later step changes the frame.
C21_IndicatorColumns ==
    /\ (pc = "start" /\ variant = "scanner" /\ today = Len(Series(download))
          /\ \A f \in FirstRows(download) : first_row <= f) =>
          LET c == Series(download)
              sma == RollingMean(c, SmaWindow)
              ema == EwmMean(c, EmaSpan)
          IN  /\ Len(sma) = Len(c)
              /\ Len(ema) = Len(c)
              /\ \A f \in 1..Len(c) :
                    /\ f < SmaWindow => IsNaN(sma[f])
                    /\ f >= SmaWindow =>
                          /\ ~IsNaN(sma[f])
                          /\ sma[f][1] * SmaWindow
                                = sma[f][2] * TrailingSum(c, f, SmaWindow)
                    /\ ~IsNaN(ema[f])
              /\ ema[1] = <<c[1], 1>>
    /\ (pc \in {"loop", "final", "aborted"} /\ i = slope_window) =>
          LET c == Series(download)
          IN  /\ Len(SMA40) = Len(Close)
              /\ Len(EMA20) = Len(Close)
              /\ Close = Filtered(c)
              /\ \A k \in 1..Len(Close) :
                    LET f == first_row + k
                    IN  /\ f < SmaWindow => IsNaN(SMA40[k])
                        /\ f >= SmaWindow =>
                              /\ ~IsNaN(SMA40[k])
                              /\ SMA40[k][1] * SmaWindow
                                    = SMA40[k][2] * TrailingSum(c, f, SmaWindow)
                        /\ ~IsNaN(EMA20[k])
              /\ (first_row = 0 /\ Close # <<>>) => EMA20[1] = <<Close[1], 1>>

\* a frame whose SMA is undefined on its first rows and a fraction later on
C21_Witness ==
    /\ pc # "start"
    /\ Len(Series(download)) > SmaWindow
    /\ \E k \in 1..Len(SMA40) : IsNaN(SMA40[k])
    /\ \E k \in 1..Len(SMA40) : ~IsNaN(SMA40[k]) /\ SMA40[k][2] > 1
    /\ \E k \in 1..Len(EMA20) : EMA20[k][2] > 1

\* C22: the summary of a run reports profit = final_cash - initial_capital
\* and return_pct = profit / initial_capital * 100, each to two decimals,
\* final_cash being the cash after the last event, the forced exit included.
C22_SummaryOfFinalCash ==
    (pc = "shown" /\ Len(outputs) = 4 /\ ticker = Upper(ticker)) =>
        /\ outputs[3].Initial = Round2(initial_capital)
        /\ outputs[3].Final = Round2(cash)
        /\ outputs[3].Profit = Round2(cash - initial_capital)
        /\ outputs[3].Return =
              Format2(<<(cash - initial_capital) * 10000, initial_capital>>)
        /\ trade_log # <<>> =>
              /\ Last(trade_log).Action \in Sells
              /\ outputs[3].Final = Last(trade_log).PortfolioValue

\* a summary after a forced exit, with a loss that is no whole percentage
C22_Witness ==
    /\ pc = "shown"
    /\ Len(outputs) = 4
    /\ ticker = Upper(ticker)
    /\ trade_log # <<>>
    /\ Last(trade_log).Action = "SELL (EOD)"
    /\ outputs[3].Profit < 0
    /\ outputs[3].Return % 100 # 0

\* a BUY record is appended by this step of the dashboard simulator
C27_BuyAppended ==
    /\ variant = "dashboard"
    /\ Len(trade_log') = Len(trade_log) + 1
    /\ Last(trade_log').Action = "BUY"

\* C27 as claimed: the Portfolio Value recorded on a BUY is the cash held
\* immediately before it.
C27_BuyRecordsCashBefore ==
    [][C27_BuyAppended => Last(trade_log').PortfolioValue = cash]_vars

\* C27, amended: the Portfolio Value recorded on a BUY is the cash held
\* immediately before it rounded to the cent: initial_capital (to the cent)
\* on the first BUY, the Portfolio Value of the preceding SELL on a later one.
C27_BuyKeepsPortfolioValue ==
    [][C27_BuyAppended =>
         /\ Last(trade_log').PortfolioValue = Round2(cash)
         /\ trade_log = <<>> =>
               Last(trade_log').PortfolioValue = Round2(initial_capital)
         /\ trade_log # <<>> =>
               /\ Last(trade_log).Action = "SELL"
               /\ Last(trade_log').PortfolioValue = Last(trade_log).PortfolioValue
       ]_vars

\* a second BUY of several shares, made with cash that is no whole cent
C27_Witness ==
    /\ variant = "dashboard"
    /\ Len(trade_log) >= 3
    /\ Last(trade_log).Action = "BUY"
    /\ Last(trade_log).Shares > 1
    /\ trade_log[Len(trade_log) - 1].Action = "SELL"
    /\ Last(trade_log).PortfolioValue = trade_log[Len(trade_log) - 1].PortfolioValue
    /\ (cash + position * Close[RecordRow(Last(trade_log))]) % TicksPerCent # 0

(***************************************************************************)
(* The live trade bot: execute_trade of tqqq_trade_bot.py and of           *)
(* TQQQ_strategy.py, run once per invocation of the script.  Prices are    *)
(* whole dollars.  A Telegram message is a pair <<kind, number>>.          *)
(***************************************************************************)
MaxInvocations == 2   \* invocations of the script in one behaviour

BUY_THRESHOLD == 25   \* percent

POSITION_SIZE == 100  \* percent of capital

MinRows == 60         \* rows should_reenter asks of the persisted series

Scripts == {"tqqq_trade_bot", "TQQQ_strategy"}

\* the step of an invocation at which the network or the disk fails
Faults == {"none", "quote", "log", "telegram"}

\* what the get_*_from_csv helpers compute from the persisted series
Confirmed == [price |-> 90, ema10 |-> 80, macd_hist |-> 1, rsi |-> 50]

Overbought == [price |-> 90, ema10 |-> 80, macd_hist |-> 1, rsi |-> 75]

\* the broker reports a position
HeldMarkets ==
    [held : {1, 3}, positions_ok : {TRUE}, average_price : {100},
     last : {90, 125}, ema10 : {100}, macd_hist : {-1, 1},
     balance_ok : {TRUE}, balance : {300}, sandbox : {TRUE},
     csv_ok : {TRUE}, csv_rows : {MinRows}, indicators : {Confirmed},
     fault : Faults]
    \* a step after the POST fails only where there is a POST
    \ {m \in [held : {1, 3}, positions_ok : {TRUE}, average_price : {100},
               last : {90}, ema10 : {100}, macd_hist : {1},
               balance_ok : {TRUE}, balance : {300}, sandbox : {TRUE},
               csv_ok : {TRUE}, csv_rows : {MinRows}, indicators : {Confirmed},
               fault : Faults] : m.fault \in {"quote", "log"}}

\* the broker reports none
FlatMarkets ==
    {m \in [held : {0}, positions_ok : {TRUE}, average_price : {0},
            last : {90}, ema10 : {100}, macd_hist : {1},
            balance_ok : BOOLEAN, balance : {50, 300}, sandbox : BOOLEAN,
            csv_ok : BOOLEAN, csv_rows : {0, MinRows - 1, MinRows},
            indicators : {Confirmed, Overbought}, fault : Faults] :
        /\ m.balance_ok => m.sandbox
        /\ ~m.balance_ok => m.balance = 50
        /\ m.csv_ok <=> m.csv_rows > 0
        /\ m.csv_rows < MinRows => m.indicators = Confirmed
        \* a step after the POST fails only where there is a POST
        /\ m.fault \in {"quote", "log"} =>
              (m.balance = 300 /\ m.csv_rows = MinRows /\ m.indicators = Confirmed)
        /\ ~m.balance_ok => m.fault = "none"}

\* shares are held and the positions request fails
LostMarkets ==
    [held : {3}, positions_ok : {FALSE}, average_price : {100},
     last : {90}, ema10 : {100}, macd_hist : {1},
     balance_ok : {TRUE}, balance : {300}, sandbox : {TRUE},
     csv_ok : {TRUE}, csv_rows : {MinRows}, indicators : {Confirmed},
     fault : {"none"}]

\* TQQQ_strategy.py reads no file and asks for no second quote
Markets(s) ==
    IF s = "tqqq_trade_bot"
    THEN HeldMarkets \cup FlatMarkets \cup LostMarkets
    ELSE {m \in HeldMarkets \cup FlatMarkets \cup LostMarkets :
            /\ m.fault \in {"none", "telegram"}
            /\ m.csv_rows = MinRows
            /\ m.indicators = Confirmed}

\* What a call did: orders POSTed, rows written to trade_log.csv, messages
\* delivered, and the exception it raised ("" when it returned).
Nothing == [orders |-> <<>>, rows |-> <<>>, msgs |-> <<>>, raised |-> ""]

\* a; b in Python: b runs only when a returned
Then(a, b) ==
    IF a.raised # "" THEN a
    ELSE [orders |-> a.orders \o b.orders, rows |-> a.rows \o b.rows,
          msgs |-> a.msgs \o b.msgs, raised |-> b.raised]

Raise(name) == [Nothing EXCEPT !.raised = name]

\* send_telegram: a failing request is caught and printed
send_telegram(m, kind, n) ==
    [Nothing EXCEPT !.msgs = IF m.fault = "telegram" THEN <<>> ELSE <<<<kind, n>>>>]

\* side.upper()
UpperSide(side) == IF side = "sell" THEN "SELL" ELSE "BUY"

\* log_trade: one row appended to trade_log.csv
log_trade(m, date, trade_type, qty, price, reason) ==
    IF m.fault = "log" THEN Raise("OSError")
    ELSE [Nothing EXCEPT !.rows = <<[date |-> date, type |-> trade_type,
                                     qty |-> qty, price |-> price,
                                     reason |-> reason]>>]

\* the POST of an order
PostOrder(qty, side) ==
    [Nothing EXCEPT !.orders = <<[side |-> side, quantity |-> qty]>>]

\* tqqq_trade_bot.place_order: POST, quote, log row, message
place_order(m, date, qty, side, reason) ==
    Then(PostOrder(qty, side),
    Then(IF m.fault = "quote" THEN Raise("ConnectionError") ELSE Nothing,
    Then(log_trade(m, date, UpperSide(side), qty, m.last, reason),
         send_telegram(m, UpperSide(side), qty))))

\* get_account_balance: the cash available, or a fallback and a warning
get_account_balance(m, sandbox_fallback) ==
    IF m.balance_ok THEN [value |-> m.balance, eff |-> Nothing]
    ELSE LET fallback == IF m.sandbox THEN sandbox_fallback ELSE 0
         IN  [value |-> fallback,
              eff |-> send_telegram(m, "Balance unavailable", fallback)]

\* get_tqqq_position: the position, or None (found = FALSE) when there is
\* none and when the request fails
get_tqqq_position(m) ==
    IF ~m.positions_ok
    THEN [found |-> FALSE, quantity |-> 0, average_price |-> 0,
          eff |-> send_telegram(m, "Error fetching position", 0)]
    ELSE [found |-> m.held > 0, quantity |-> m.held,
          average_price |-> m.average_price, eff |-> Nothing]

\* load_csv: the last 60 rows, or None (rows = -1) and a warning
load_csv(m) ==
    IF m.csv_ok
    THEN [rows |-> IF m.csv_rows > 60 THEN 60 ELSE m.csv_rows, eff |-> Nothing]
    ELSE [rows |-> -1, eff |-> send_telegram(m, "Error loading CSV", 0)]

\* should_reenter.  The module imports datetime, so datetime.now() raises
\* AttributeError before log_trade is called.
should_reenter(m) ==
    LET df == load_csv(m)
        x == m.indicators
        ok == x.macd_hist > 0 /\ x.rsi < 70 /\ x.price > x.ema10
    IN  IF df.rows = -1 \/ df.rows < MinRows
        THEN [value |-> FALSE,
              eff |-> Then(df.eff,
                      Then(send_telegram(m, "Indicator data unavailable", 0),
                           Raise("AttributeError")))]
        ELSE [value |-> ok,
              eff |-> Then(df.eff,
                           send_telegram(m, IF ok THEN "Signal confirmed"
                                            ELSE "Signal not confirmed", 0))]

\* gain = (price - entry_price) / entry_price >= 0.25
GainReached(price, entry_price) ==
    100 * (price - entry_price) >= BUY_THRESHOLD * entry_price

\* sell_qty = qty // 2
PartialExit(qty) == qty \div 2

\* price < get_ema10(SYMBOL) and get_macd_histogram(SYMBOL) < 0
ExitSignal(m) == m.last < m.ema10 /\ m.macd_hist < 0

\* int((capital * POSITION_SIZE / 100) // price)
BuyQuantity(capital, price) == ((capital * POSITION_SIZE) \div 100) \div price

\* tqqq_trade_bot.execute_trade
TradeBot(m, date) ==
    LET capital == get_account_balance(m, 5000)
        pos == get_tqqq_position(m)
    IN  Then(capital.eff, Then(pos.eff,
        IF pos.found
        THEN IF GainReached(m.last, pos.average_price)
             THEN place_order(m, date, PartialExit(pos.quantity), "sell",
                              "+25% profit")
             ELSE IF ExitSignal(m)
             THEN place_order(m, date, pos.quantity, "sell", "MACD exit")
             ELSE send_telegram(m, "Holding", pos.quantity)
        ELSE LET signal == should_reenter(m)
                 qty == BuyQuantity(capital.value, m.last)
             IN  Then(signal.eff,
                 IF ~signal.value THEN Nothing
                 ELSE IF qty > 0
                 THEN place_order(m, date, qty, "buy", "Trend resumed")
                 ELSE send_telegram(m, "Not enough capital", 0))))

\* TQQQ_strategy.execute_trade: place_order is the POST alone
Strategy(m) ==
    LET capital == get_account_balance(m, 10000)
        pos == get_tqqq_position(m)
    IN  Then(capital.eff, Then(pos.eff,
        IF pos.found
        THEN IF GainReached(m.last, pos.average_price)
             THEN Then(PostOrder(PartialExit(pos.quantity), "sell"),
                       send_telegram(m, "SELL", PartialExit(pos.quantity)))
             ELSE IF ExitSignal(m)
             THEN Then(PostOrder(pos.quantity, "sell"),
                       send_telegram(m, "SELL", pos.quantity))
             ELSE send_telegram(m, "Holding", pos.quantity)
        ELSE LET qty == BuyQuantity(capital.value, m.last)
             IN  IF qty = 0
                 THEN send_telegram(m, "Not enough capital", capital.value)
                 ELSE Then(PostOrder(qty, "buy"),
                      Then(send_telegram(m, "BUY", qty),
                           send_telegram(m, "Target",
                               (m.last * (100 + BUY_THRESHOLD)) \div 100)))))

InitBot ==
    /\ script \in Scripts
    /\ market \in Markets(script)
    /\ submitted = <<>>
    /\ trade_log_csv = <<>>
    /\ telegrams = <<>>
    /\ raised = ""
    /\ invocations = 0
    /\ InitIdle
    /\ NoScan
    /\ NoSignalBot
    /\ NoCsvUpdate
    /\ NoPolling
    /\ NoOpener
    /\ NoCloser

\* One run of a script; by the next run the market has moved on.
Invoke(done) ==
    /\ invocations < MaxInvocations
    /\ submitted' = submitted \o done.orders
    /\ trade_log_csv' = trade_log_csv \o done.rows
    /\ telegrams' = telegrams \o done.msgs
    /\ raised' = done.raised
    /\ invocations' = invocations + 1
    /\ market' \in Markets(script)
    /\ UNCHANGED <<script, simulator_vars, scan_vars, signal_vars, csv_vars,
                 poll_vars, open_vars, close_vars>>

RunTradeBot ==
    /\ script = "tqqq_trade_bot"
    /\ Invoke(TradeBot(market, invocations + 1))

RunStrategy ==
    /\ script = "TQQQ_strategy"
    /\ Invoke(Strategy(market))

NextBot == RunTradeBot \/ RunStrategy

SpecBot == InitBot /\ [][NextBot]_vars

(***************************************************************************)
(* The live trade bot, claims.                                             *)
(***************************************************************************)
\* this step is one invocation of execute_trade
Invoked == invocations' = invocations + 1

NewOrders == SubSeq(submitted', Len(submitted) + 1, Len(submitted'))

NewRows == SubSeq(trade_log_csv', Len(trade_log_csv) + 1, Len(trade_log_csv'))

NewMessages == SubSeq(telegrams', Len(telegrams) + 1, Len(telegrams'))

Count(q, Test(_)) == Cardinality({n \in 1..Len(q) : Test(q[n])})

IsOrderRow(row) == row.type \in {"BUY", "SELL"}

IsOrderMessage(msg) == msg[1] \in {"BUY", "SELL"}

\* C23: in tqqq_trade_bot.py every order submitted to the brokerage is
\* recorded by exactly one row appended to trade_log.csv and one
\* notification, also when the quote lookup, the logging or the notification
\* after the submission fails; trade_log.csv is only ever appended to.
C23_EveryOrderLoggedAndNotified ==
    [][ (Invoked /\ script = "tqqq_trade_bot") =>
          /\ Len(trade_log_csv') >= Len(trade_log_csv)
          /\ SubSeq(trade_log_csv', 1, Len(trade_log_csv)) = trade_log_csv
          /\ Count(NewRows, IsOrderRow) = Len(NewOrders)
          /\ Count(NewMessages, IsOrderMessage) = Len(NewOrders)
          /\ \A n \in 1..Len(NewOrders) :
                \E r \in 1..Len(NewRows) :
                   /\ NewRows[r].type = UpperSide(NewOrders[n].side)
                   /\ NewRows[r].qty = NewOrders[n].quantity ]_vars

\* the persisted series cannot be loaded, or is short
SeriesUnavailable == ~market.csv_ok \/ market.csv_rows < MinRows

IsSkipRow(row) == row.type = "SKIP"

IsUnavailableWarning(msg) == msg[1] = "Indicator data unavailable"

\* C24: in tqqq_trade_bot.py, when execute_trade asks should_reenter and the
\* persisted indicator series cannot be loaded or has fewer than 60 rows,
\* should_reenter sends one warning, appends one SKIP row to trade_log.csv
\* and returns False, and the invocation places no order.
C24_SkipLoggedOnMissingSeries ==
    [][ (Invoked /\ script = "tqqq_trade_bot" /\ ~get_tqqq_position(market).found
           /\ SeriesUnavailable /\ market.fault = "none") =>
          /\ raised' = ""
          /\ Count(NewMessages, IsUnavailableWarning) = 1
          /\ Count(NewRows, IsSkipRow) = 1
          /\ NewOrders = <<>> ]_vars

\* C25: one invocation of execute_trade places at most one order: a sell
\* only when the broker reports a position (half the quantity when gain >=
\* 25%, else the whole quantity when price < EMA10 and MACD histogram < 0),
\* a buy only when the broker reports none; it never buys while a position
\* is held.
C25_OneOrderNeverBuysWhileHeld ==
    [][ Invoked =>
          /\ Len(NewOrders) <= 1
          /\ \A n \in 1..Len(NewOrders) :
                LET o == NewOrders[n]
                    pos == get_tqqq_position(market)
                IN  /\ o.side = "sell" =>
                          /\ pos.found
                          /\ IF GainReached(market.last, pos.average_price)
                             THEN o.quantity = pos.quantity \div 2
                             ELSE /\ ExitSignal(market)
                                  /\ o.quantity = pos.quantity
                    /\ o.side = "buy" =>
                          /\ ~pos.found
                          /\ market.held = 0 ]_vars

\* C26: every order execute_trade submits is for at least 1 share and, for a
\* sell, for at most the held quantity; the 25%-gain partial exit never
\* submits an order for 0 shares.
C26_OrderQuantityAtLeastOne ==
    [][ Invoked =>
          \A n \in 1..Len(NewOrders) :
             /\ NewOrders[n].quantity >= 1
             /\ NewOrders[n].side = "sell" => NewOrders[n].quantity <= market.held
      ]_vars

(***************************************************************************)
(* The multi-ticker scanner: __main__ of multiTickerBuySellSignal.py.      *)
(* Each ticker of the list is simulated by Setup, Step and Return above;   *)
(* the rest of the loop body is Collect, its except branch is Fail.        *)
(***************************************************************************)
\* load_tickers_from_csv: the distinct symbols of the file, [] on an error
TickerLists == {<<>>, <<"TQQQ">>, <<"TQQQ", "SOXL">>}

\* get_price_with_backup: a price, or None (0)
CurrentPrices == QuotePrices \cup {0}

IsToday(rec) == rec.Date = DateStr(today)

\* every trade of the log
today_trades_All(log) == log

\* trade_df[trade_df["Date"] == str(today)]
today_trades(log) == SelectSeq(log, IsToday)

\* the tuple appended for a ticker whose last trade of today is last_trade
SignalRow(t, last_trade, current_price) ==
    <<t, last_trade.Action, <<"$", last_trade.Price>>,
      IF current_price # 0 THEN <<"$", current_price>> ELSE <<"Unavailable">>>>

ErrorRow(t) == <<t, "ERROR", <<"-">>, <<"-">>>>

\* for ticker in ticker_list: the next pass, or the end of the loop
NextTicker ==
    IF scan_pos < Len(ticker_list)
    THEN /\ scan_pos' = scan_pos + 1
         /\ ticker' = ticker_list[scan_pos + 1]
         /\ download' \in TwoRunDownloads
         /\ pc' = "start"
    ELSE /\ pc' = "summary"
         /\ UNCHANGED <<scan_pos, ticker, download>>

InitScan ==
    /\ variant = "scanner"
    /\ ticker_list \in TickerLists
    /\ scan_pos = IF ticker_list = <<>> THEN 0 ELSE 1
    /\ ticker = IF ticker_list = <<>> THEN "" ELSE ticker_list[1]
    /\ pc = IF ticker_list = <<>> THEN "summary" ELSE "start"
    /\ download \in TwoRunDownloads
    /\ first_row = LongPrefix - slope_window
    /\ today \in {LongPrefix + MaxTail, LongPrefix + MaxTail + 1}
    /\ all_rows = <<>>
    /\ final_messages = <<>>
    /\ initial_capital = 0
    /\ broker = NoBroker
    /\ Close = <<>>
    /\ EMA20 = <<>>
    /\ SMA40 = <<>>
    /\ shares = 0
    /\ position = 0
    /\ cash = 0
    /\ trade_log = <<>>
    /\ notified = <<>>
    /\ orders = <<>>
    /\ i = 0
    /\ outputs = <<>>
    /\ suspended = <<>>
    /\ NoBot
    /\ NoSignalBot
    /\ NoCsvUpdate
    /\ NoPolling
    /\ NoOpener
    /\ NoCloser

\* The loop body after simulate_strategy returned.
Collect ==
    /\ pc = "done"
    /\ LET todays == today_trades(trade_log)
       IN  \E current_price \in CurrentPrices :
              all_rows' =
                 IF todays = <<>> \/ Last(todays).Action = "NO SIGNAL"
                 THEN all_rows
                 ELSE Append(all_rows,
                             SignalRow(ticker, Last(todays), current_price))
    /\ NextTicker
    /\ UNCHANGED <<variant, first_row, Close, EMA20, SMA40, today,
                   initial_capital, broker, shares, position, cash, trade_log,
                   notified, orders, i, outputs, suspended>>
    /\ UNCHANGED <<ticker_list, final_messages, bot_vars, signal_vars, csv_vars,
                 poll_vars, open_vars, close_vars>>

\* The except branch: the download of the ticker raises.
Fail ==
    /\ pc = "start"
    /\ all_rows' = Append(all_rows, ErrorRow(ticker))
    /\ NextTicker
    /\ UNCHANGED <<variant, first_row, Close, EMA20, SMA40, today,
                   initial_capital, broker, shares, position, cash, trade_log,
                   notified, orders, i, outputs, suspended>>
    /\ UNCHANGED <<ticker_list, final_messages, bot_vars, signal_vars, csv_vars,
                 poll_vars, open_vars, close_vars>>

\* The message is built from all_rows and POSTed once; a failing request is
\* caught and printed.
SendSummary ==
    /\ pc = "summary"
    /\ \E delivered \in BOOLEAN :
          final_messages' = Append(final_messages,
              [scanned |-> Len(ticker_list), signals |-> Len(all_rows),
               lines |-> all_rows, delivered |-> delivered])
    /\ pc' = "exit"
    /\ UNCHANGED <<variant, ticker, download, first_row, Close, EMA20, SMA40,
                   today, initial_capital, broker, shares, position, cash,
                   trade_log, notified, orders, i, outputs, suspended>>
    /\ UNCHANGED <<ticker_list, scan_pos, all_rows, bot_vars, signal_vars,
                   csv_vars,
                 poll_vars, open_vars, close_vars>>

NextScan == Setup \/ Step \/ Return \/ Collect \/ Fail \/ SendSummary

SpecScan == InitScan /\ [][NextScan]_vars

(***************************************************************************)
(* The scanner, claims.                                                    *)
(***************************************************************************)
\* this step ends the pass of the loop for the current ticker
PassEnds == pc \in {"start", "done"} /\ pc' \in {"start", "summary"}

C28_Scan ==
    /\ Len(final_messages) = (IF pc = "exit" THEN 1 ELSE 0)
    /\ pc \in {"summary", "exit"} => scan_pos = Len(ticker_list)
    /\ pc = "exit" =>
          /\ final_messages[1].lines = all_rows
          /\ final_messages[1].scanned = Len(ticker_list)
    /\ Len(all_rows) <= scan_pos
    /\ \A a, b \in 1..Len(all_rows) : all_rows[a][1] = all_rows[b][1] => a = b

C28_Pass ==
    IF PassEnds
    THEN /\ IF scan_pos < Len(ticker_list)
            THEN /\ scan_pos' = scan_pos + 1
                 /\ ticker' = ticker_list[scan_pos']
                 /\ pc' = "start"
            ELSE pc' = "summary"
         /\ LET dated == {k \in 1..Len(trade_log) : trade_log[k].Date = DateStr(today)}
            IN  IF pc = "start"
                THEN /\ Len(all_rows') = Len(all_rows) + 1
                     /\ Last(all_rows')[1] = ticker
                     /\ Last(all_rows')[2] = "ERROR"
                ELSE IF dated # {}
                THEN /\ Len(all_rows') = Len(all_rows) + 1
                     /\ Last(all_rows')[1] = ticker
                     /\ \E k \in dated :
                           /\ \A m \in dated : m <= k
                           /\ Last(all_rows')[2] = trade_log[k].Action
                ELSE all_rows' = all_rows
    ELSE all_rows' = all_rows

\* C28: an error while a ticker is processed does not stop the scan: after
\* every pass the next ticker of the list is started, until the list is
\* exhausted; a pass appends a row for its ticker exactly when the ticker's
\* log has an event dated today (the row carries the last such action) or the
\* pass raised (the row says ERROR); and exactly one combined message, built
\* from these rows, is POSTed per scan, also when there is no row.
C28_ScanNeverStops == []C28_Scan /\ [][C28_Pass]_vars

\* a finished scan of two tickers: the first raised, the second sold today
\* after a BUY of an earlier day
C28_Witness ==
    /\ pc = "exit"
    /\ Len(ticker_list) = 2
    /\ Len(all_rows) = 2
    /\ all_rows[1] = ErrorRow(ticker_list[1])
    /\ all_rows[2][1] = ticker_list[2]
    /\ all_rows[2][2] = "SELL"
    /\ Len(trade_log) > 1
    /\ Len(final_messages) = 1

(***************************************************************************)
(* signal_bot.py: simulate_trades, a function of the indicator frame.      *)
(* Prices are whole dollars.                                               *)
(***************************************************************************)
MaxBars == 3          \* rows of the indicator frame

\* rows of the frame: a close with EMA10, MACD histogram and RSI that
\* signal an entry, an exit on MACD, an exit on RSI, or neither
SignalBars ==
    [Close : {90, 100, 110}, EMA10 : {95}, MACD_Hist : {-1, 1},
     RSI : {50, 75, 85}]

SignalFrames == UNION {[1..n -> SignalBars] : n \in 0..MaxBars}

\* the profit of one share
Profit_PerShare(price, entry_price, qty) == price - entry_price

\* profit = (price - entry_price) * qty
Profit(price, entry_price, qty) == (price - entry_price) * qty

\* one pass of for i in range(len(df))
TradeRow(s, row, date) ==
    LET price == row.Close
    IN  IF ~s.holding /\ price > row.EMA10 /\ row.MACD_Hist > 0 /\ row.RSI < 70
        THEN [s EXCEPT
                !.entry_price = price,
                !.trades = Append(@, [date |-> date, type |-> "BUY",
                                      qty |-> s.qty, price |-> price,
                                      reason |-> "EMA10 + MACD + RSI",
                                      pnl |-> <<>>]),
                !.holding = TRUE]
        ELSE IF s.holding /\ (row.MACD_Hist < 0 \/ row.RSI > 80)
        THEN LET profit == Profit(price, s.entry_price, s.qty)
             IN  [s EXCEPT
                    !.total_profit = @ + profit,
                    !.wins = IF profit > 0 THEN @ + 1 ELSE @,
                    !.losses = IF profit > 0 THEN @ ELSE @ + 1,
                    !.trades = Append(@, [date |-> date, type |-> "SELL",
                                          qty |-> s.qty, price |-> price,
                                          reason |-> "MACD exit or RSI > 80",
                                          pnl |-> <<profit>>]),
                    !.holding = FALSE]
        ELSE s

RECURSIVE SimulateFrom(_, _, _)
SimulateFrom(df, n, s) ==
    IF n > Len(df) THEN s
    ELSE SimulateFrom(df, n + 1, TradeRow(s, df[n], n))

\* simulate_trades(df, ticker): the locals as they are at the return
simulate_trades(df) ==
    SimulateFrom(df, 1,
        [holding |-> FALSE, qty |-> 100, entry_price |-> 0, trades |-> <<>>,
         total_profit |-> 0, wins |-> 0, losses |-> 0])

InitSignalBot ==
    /\ indicator_df \in SignalFrames
    /\ simulated = <<>>
    /\ InitIdle
    /\ NoScan
    /\ NoBot
    /\ NoCsvUpdate
    /\ NoPolling
    /\ NoOpener
    /\ NoCloser

SimulateTrades ==
    /\ simulated = <<>>
    /\ simulated' = <<simulate_trades(indicator_df)>>
    /\ UNCHANGED <<indicator_df, simulator_vars, scan_vars, bot_vars, csv_vars,
                 poll_vars, open_vars, close_vars>>

NextSignalBot == SimulateTrades

SpecSignalBot == InitSignalBot /\ [][NextSignalBot]_vars

(***************************************************************************)
(* signal_bot.py, claims.                                                  *)
(***************************************************************************)
\* the profit of the completed pairs among the first n trades
PairProfit(trades, n) ==
    LET S[m \in 0..n] ==
          IF m = 0 THEN 0
          ELSE IF m % 2 = 0
          THEN S[m - 1] + (trades[m].price - trades[m - 1].price) * trades[m].qty
          ELSE S[m - 1]
    IN  S[n]

\* C29: for every indicator frame the trade list of simulate_trades
\* alternates BUY, SELL from a BUY on, wins + losses is the number of SELLs,
\* total_profit is the sum over the completed BUY/SELL pairs of
\* (sell price - entry price) * qty, and a position that is open after the
\* last row is neither closed nor counted.
C29_TradesAlternateAndAddUp ==
    simulated # <<>> =>
        LET r == simulated[1]
            n == Len(r.trades)
            sells == {k \in 1..n : r.trades[k].type = "SELL"}
        IN  /\ \A k \in 1..n :
                  r.trades[k].type = (IF k % 2 = 1 THEN "BUY" ELSE "SELL")
            /\ r.wins + r.losses = Cardinality(sells)
            /\ r.total_profit = PairProfit(r.trades, n)
            /\ r.holding <=> n % 2 = 1
            /\ r.holding =>
                  /\ r.trades[n].type = "BUY"
                  /\ r.trades[n].date <= Len(indicator_df)
                  /\ r.wins + r.losses = (n - 1) \div 2
                  /\ r.total_profit = PairProfit(r.trades, n - 1)

\* a loss taken, then a position bought on the last row and left open
C29_Witness ==
    /\ simulated # <<>>
    /\ Len(simulated[1].trades) = 3
    /\ simulated[1].holding
    /\ simulated[1].losses = 1
    /\ simulated[1].total_profit < 0
    /\ simulated[1].trades[3].date = Len(indicator_df)

(***************************************************************************)
(* update_tqqq_data.py: update_csv, run once per invocation, and the file  *)
(* tqqq_data.csv that download_200_days_tqqq_history.py wrote.  A bar is   *)
(* <<date, values>>, a line of the file the same pair, its first field the *)
(* date.                                                                   *)
(***************************************************************************)
MaxDays == 3          \* trading days the provider gets to

\* the values (open, high, low, close, volume) a day's bar can carry
Values == {<<1>>, <<2>>}

\* the date of a bar, 'YYYY-MM-DD'
DayName(d) == <<"2024-01", d>>

HeaderLine == <<<<"date">>, <<"open", "high", "low", "close", "volume">>>>

\* histories of d days
Histories(d) == [1..d -> Values]

Bars(h) == [k \in 1..Len(h) |-> <<DayName(k), h[k]>>]

\* save_csv: the header and one line per bar
save_csv(data) == [exists |-> TRUE, lines |-> <<HeaderLine>> \o data]

\* the date of the first line after the header
get_last_csv_date_FirstRow(file) ==
    IF ~file.exists THEN <<>>
    ELSE file.lines[IF Len(file.lines) > 1 THEN 2 ELSE 1][1]

\* get_last_csv_date: the first field of the last line, None without a file
get_last_csv_date(file) ==
    IF ~file.exists THEN <<>>
    ELSE file.lines[Len(file.lines)][1]

\* append_to_csv: open(CSV_FILE, 'a') creates a missing file
append_to_csv(file, row) ==
    [exists |-> TRUE, lines |-> Append(file.lines, <<row[1], row[2]>>)]

\* get_latest_tradier_data: data[-1] if data else None
get_latest_tradier_data(data) == IF data = <<>> THEN <<>> ELSE data[Len(data)]

InitCsvUpdate ==
    /\ \E d \in 1..MaxDays : \E h \in Histories(d) :
          /\ tradier_day = Bars(h)
          /\ \/ csv_file = [exists |-> FALSE, lines |-> <<>>]
             \/ \E d0 \in 1..d, v \in Values :
                   csv_file = save_csv([k \in 1..d0 |->
                       IF k = d0 THEN <<DayName(k), v>> ELSE Bars(h)[k]])
    /\ latest = <<>>
    /\ printed = <<>>
    /\ InitIdle
    /\ NoScan
    /\ NoBot
    /\ NoSignalBot
    /\ NoPolling
    /\ NoOpener
    /\ NoCloser

\* One run of update_csv; the provider answers with its history or nothing.
UpdateCsv ==
    /\ \E data \in {tradier_day, <<>>} :
          /\ latest' = get_latest_tradier_data(data)
          /\ IF latest' = <<>>
             THEN /\ printed' = <<"No data received.">>
                  /\ UNCHANGED csv_file
             ELSE IF latest'[1] # get_last_csv_date(csv_file)
             THEN /\ csv_file' = append_to_csv(csv_file, latest')
                  /\ printed' = <<"Appended", latest'[1]>>
             ELSE /\ printed' = <<"No new data to append.">>
                  /\ UNCHANGED csv_file
    /\ UNCHANGED <<tradier_day, simulator_vars, scan_vars, bot_vars, signal_vars,
                   poll_vars, open_vars, close_vars>>

\* The provider closes a day and opens the next.
NewDay ==
    /\ Len(tradier_day) < MaxDays
    /\ \E v \in Values :
          tradier_day' = Append(tradier_day, <<DayName(Len(tradier_day) + 1), v>>)
    /\ UNCHANGED <<csv_file, latest, printed, simulator_vars, scan_vars, bot_vars,
                   signal_vars, poll_vars, open_vars, close_vars>>

\* The provider revises the bar of the running day.
Revise ==
    /\ \E v \in Values :
          /\ v # tradier_day[Len(tradier_day)][2]
          /\ tradier_day' = [tradier_day EXCEPT ![Len(tradier_day)][2] = v]
    /\ UNCHANGED <<csv_file, latest, printed, simulator_vars, scan_vars, bot_vars,
                   signal_vars, poll_vars, open_vars, close_vars>>

NextCsvUpdate == UpdateCsv \/ NewDay \/ Revise

SpecCsvUpdate == InitCsvUpdate /\ [][NextCsvUpdate]_vars

(***************************************************************************)
(* update_tqqq_data.py, claims.                                            *)
(***************************************************************************)
C30_NoAdjacentDates ==
    \A k \in 1..(Len(csv_file.lines) - 1) :
       csv_file.lines[k][1] # csv_file.lines[k + 1][1]

C30_Update ==
    /\ csv_file' # csv_file =>
          /\ latest' # <<>>
          /\ csv_file'.lines = Append(csv_file.lines, latest')
          /\ csv_file.exists =>
                latest'[1] # csv_file.lines[Len(csv_file.lines)][1]
    /\ (csv_file' = csv_file /\ latest' # latest /\ latest' # <<>>) =>
          /\ csv_file.exists
          /\ latest'[1] = csv_file.lines[Len(csv_file.lines)][1]
    /\ (latest # <<>> /\ latest' = latest /\ tradier_day' = tradier_day) =>
          csv_file' = csv_file

\* C30: update_csv appends the provider's latest bar only when its date
\* differs from the date of the last line of the file, and then appends it;
\* an invocation that sees the latest bar the invocation before it saw
\* appends nothing; and the file never holds two adjacent lines with the
\* same date.
C30_AppendsLatestBarOnce == []C30_NoAdjacentDates /\ [][C30_Update]_vars

\* the bar of the last line has been revised since it was appended, and the
\* last invocation saw the revision and appended nothing
C30_Witness ==
    /\ Len(csv_file.lines) >= 3
    /\ printed = <<"No new data to append.">>
    /\ latest # <<>>
    /\ latest[1] = csv_file.lines[Len(csv_file.lines)][1]
    /\ latest[2] # csv_file.lines[Len(csv_file.lines)][2]

(***************************************************************************)
(* dynamic_trend_bot.py: run_bot, the Telegram polling loop.  Telegram     *)
(* numbers the updates of a bot upwards from a positive number and answers *)
(* getUpdates with the updates that are not below the offset, in order.    *)
(* An update is its update_id and the stripped text of its message ("" for *)
(* an update without message or text).                                     *)
(***************************************************************************)
Backlog == 9

MaxUpdates == 3

maxlen == 10

\* Texts for which text.isalpha() and len(text) <= 5 hold.
Symbols ==
    <<"AAPL", "MSFT", "TSLA", "NVDA", "AMZN", "META", "GOOG", "NFLX", "AMD",
      "INTC", "QQQ", "SPY", "IWM">>

\* What users send once the bot runs: nothing readable, commands, an
\* intraday request, free text, a ticker sent before, tickers not sent before.
Messages ==
    {"", "/help", "/news AAPL", "/INTRA QQQ", "QQQ_INTRA", "buy now!",
     Symbols[1], Symbols[Backlog + 1], Symbols[Backlog + 2]}

\* deque(maxlen=10).append: a full deque drops its leftmost entry.
append_Unbounded(dq, x) == Append(dq, x)

append(dq, x) ==
    IF Len(dq) < maxlen THEN Append(dq, x) ELSE Append(Tail(dq), x)

\* requests.get(url).json().get("result", []) for an answered request.
getUpdates(off) ==
    SelectSeq(updates, LAMBDA u : off = 0 \/ u.update_id >= off)

NextOffset_Same(update) == update.update_id

\* offset = update["update_id"] + 1
NextOffset(update) == update.update_id + 1

\* Lines 246-291 for a text that passed lines 240-244: the kinds of text
\* handed to send_telegram, and whether an exception escapes.  "/help"
\* answers for the commands that answer; fetch_news_sentiment has no try
\* around its request; "/INTRA QQQ" passes text.lower().startswith("/intra ")
\* and fails in text.split("/intra ")[1].
respond(text) ==
    IF text = "/help" THEN {<<<<"help">>, FALSE>>}
    ELSE IF text = "/news AAPL" THEN {<<<<"news">>, FALSE>>, <<<<>>, TRUE>>}
    ELSE IF text = "/INTRA QQQ" THEN {<<<<>>, TRUE>>}
    ELSE IF text = "QQQ_INTRA" THEN {<<<<"intraday">>, FALSE>>}
    ELSE IF \E k \in DOMAIN Symbols : text = Symbols[k]
         THEN {<<<<"daily">>, FALSE>>}
    ELSE {<<<<"invalid">>, FALSE>>}

\* run_bot has announced itself and is about to poll; the users' earlier
\* messages wait at Telegram.
InitPolling ==
    /\ updates = [k \in 1..Backlog |-> [update_id |-> k, text |-> Symbols[k]]]
    /\ offset = 0
    /\ result = <<>>
    /\ polling = "get"
    /\ recent_tickers = <<>>
    /\ replies = <<[chat |-> 0, text |-> "live"]>>
    /\ handled = <<>>
    /\ InitIdle
    /\ NoScan
    /\ NoBot
    /\ NoSignalBot
    /\ NoCsvUpdate
    /\ NoOpener
    /\ NoCloser

\* A user sends a message.
Arrive ==
    /\ Len(updates) < Backlog + MaxUpdates
    /\ \E text \in Messages :
          updates' = Append(updates,
                            [update_id |-> Len(updates) + 1, text |-> text])
    /\ UNCHANGED <<offset, result, polling, recent_tickers, replies, handled,
                   simulator_vars, scan_vars, bot_vars, signal_vars, csv_vars,
                   open_vars, close_vars>>

\* Lines 230-233: the request is answered, or it raises.
GetUpdates ==
    /\ polling = "get"
    /\ \/ /\ result' = getUpdates(offset)
          /\ polling' = "for"
       \/ /\ polling' = "except"
          /\ UNCHANGED result
    /\ UNCHANGED <<updates, offset, recent_tickers, replies, handled,
                   simulator_vars, scan_vars, bot_vars, signal_vars, csv_vars,
                   open_vars, close_vars>>

\* One pass of the for body, lines 234-291.
Handle ==
    /\ polling = "for"
    /\ result # <<>>
    /\ LET update == Head(result)
           text == update.text
       IN /\ offset' = NextOffset(update)
          /\ handled' = Append(handled, update.update_id)
          /\ IF text = "" \/ \E k \in DOMAIN recent_tickers :
                                 text = recent_tickers[k]
             THEN /\ result' = Tail(result)
                  /\ UNCHANGED <<polling, recent_tickers, replies>>
             ELSE /\ recent_tickers' = append(recent_tickers, text)
                  /\ \E out \in respond(text) :
                        /\ replies' = replies \o
                              [k \in 1..Len(out[1]) |->
                                 [chat |-> update.update_id, text |-> out[1][k]]]
                        /\ IF out[2]
                           THEN polling' = "except" /\ result' = <<>>
                           ELSE result' = Tail(result) /\ UNCHANGED polling
    /\ UNCHANGED <<updates, simulator_vars, scan_vars, bot_vars, signal_vars,
                   csv_vars, open_vars, close_vars>>

\* Lines 292-294: the handler logs what was raised, if anything; then
\* time.sleep(5) and the next pass of while True.
Sleep ==
    /\ \/ polling = "except"
       \/ polling = "for" /\ result = <<>>
    /\ polling' = "get"
    /\ UNCHANGED <<updates, offset, result, recent_tickers, replies, handled,
                   simulator_vars, scan_vars, bot_vars, signal_vars, csv_vars,
                   open_vars, close_vars>>

NextPolling == Arrive \/ GetUpdates \/ Handle \/ Sleep

SpecPolling == InitPolling /\ [][NextPolling]_vars

Text(id) == updates[id].text

RepliesTo(id) == Count(replies, LAMBDA m : m.chat = id)

\* C31: the offset is update_id + 1 of the update taken up last and never
\* decreases; no update is taken up twice, whether or not handling it
\* raised; after an exception the loop goes on with its next poll.
C31_HandledOnce ==
    /\ polling \in {"get", "for", "except"}
    /\ \A j, k \in DOMAIN handled : j # k => handled[j] # handled[k]
    /\ handled # <<>> => offset = handled[Len(handled)] + 1

C31_Step ==
    /\ offset' >= offset
    /\ polling = "except" /\ polling' # polling => polling' = "get"
    /\ handled' # handled =>
          /\ handled' = Append(handled, Head(result).update_id)
          /\ offset' = Head(result).update_id + 1

C31_OffsetAdvances == []C31_HandledOnce /\ [][C31_Step]_vars

\* An update whose handling raised was followed by a poll of the later ones.
C31_Witness ==
    \E j \in DOMAIN handled :
       /\ Text(handled[j]) = "/INTRA QQQ"
       /\ RepliesTo(handled[j]) = 0
       /\ j < Len(handled)
       /\ handled[Len(handled)] > handled[j]
       /\ polling = "get"

\* text.startswith("/"), over Messages
IsCommand(text) == text \in {"/help", "/news AAPL", "/INTRA QQQ"}

IsRecent(text) == \E k \in DOMAIN recent_tickers : text = recent_tickers[k]

\* C32: recent_tickers holds at most 10 entries, all different; a message
\* whose text is in recent_tickers is dropped without a reply; every other
\* message with a text that is not a command is answered by exactly one
\* send_telegram to its chat, and never again later.
C32_RecentTickers ==
    /\ Len(recent_tickers) <= maxlen
    /\ \A j, k \in DOMAIN recent_tickers :
          j # k => recent_tickers[j] # recent_tickers[k]
    /\ \A id \in DOMAIN updates :
          ~IsCommand(Text(id)) => RepliesTo(id) <= 1

C32_Step ==
    handled' # handled =>
       LET update == Head(result)
       IN /\ IsRecent(update.text) => replies' = replies
          /\ (update.text # "" /\ ~IsRecent(update.text)
                               /\ ~IsCommand(update.text)) =>
                /\ Len(replies') = Len(replies) + 1
                /\ SubSeq(replies', 1, Len(replies)) = replies
                /\ replies'[Len(replies')].chat = update.update_id
                /\ RepliesTo(update.update_id) = 0

C32_RecentAndReplies == []C32_RecentTickers /\ [][C32_Step]_vars

\* The deque is full and has dropped its first entry; a ticker sent a
\* second time went unanswered the second time, and the free text and the
\* tickers that were new were answered.
C32_Witness ==
    /\ Len(recent_tickers) = maxlen
    /\ recent_tickers[1] # Symbols[1]
    /\ \E j, k \in DOMAIN handled :
          /\ handled[j] < handled[k]
          /\ Text(handled[j]) = Text(handled[k])
          /\ Text(handled[j]) = Symbols[1]
          /\ RepliesTo(handled[j]) = 1
          /\ RepliesTo(handled[k]) = 0
    /\ \A j \in DOMAIN handled :
          handled[j] > Backlog + 1 => RepliesTo(handled[j]) = 1
    /\ Len(handled) = Backlog + MaxUpdates

(***************************************************************************)
(* qqq_spread.py: one run of the script, main under the handler of         *)
(* __main__.  Prices and strikes are whole dollars.                        *)
(***************************************************************************)
MaxMove == 1

spread_width == 5

\* What the run finds: the settings of the .env file, and what the clock,
\* the price history, the option chain (once per leg) and the order
\* endpoint answer.  prices is <<last_close, today_open>>, or <<>> when
\* get_qqq_prices raises.
Openers ==
    [SANDBOX : BOOLEAN, PLACE_TRADE : BOOLEAN, telegram : BOOLEAN,
     clock : {"open", "closed", "undecodable", "unreachable"},
     prices : {<<>>} \cup {<<500, o>> : o \in (500 - MaxMove)..(500 + MaxMove)},
     chain : {"listed", "undecodable", "empty"}
             \X {"listed", "undecodable", "empty"},
     post : {"answered", "unreachable"}]

fetch_option_symbol_Always(answer, strike) ==
    [raised |-> FALSE, symbol |-> <<"QQQ", "put", strike>>]

\* The symbol of the listed put closest to the strike (every strike is
\* listed); None, here <<>>, when the chain's answer is not JSON; an
\* exception when no chain has a put.
fetch_option_symbol(answer, strike) ==
    IF answer = "listed"
    THEN [raised |-> FALSE, symbol |-> <<"QQQ", "put", strike>>]
    ELSE IF answer = "undecodable" THEN [raised |-> FALSE, symbol |-> <<>>]
    ELSE [raised |-> TRUE, symbol |-> <<>>]

\* main and the handler around it: the orders POSTed, the messages
\* notify_telegram POSTed, and how the run left main.
qqq_spread(e) ==
    LET notify_telegram(message) == IF e.telegram THEN <<message>> ELSE <<>>
        failed == [orders |-> <<>>, notes |-> notify_telegram("Script failed"),
                   exit |-> "failed"]
        returned(message) ==
            [orders |-> <<>>, notes |-> notify_telegram(message),
             exit |-> "returned"]
    IN  IF ~e.SANDBOX /\ e.clock = "unreachable" THEN failed
        ELSE IF ~e.SANDBOX /\ e.clock # "open" THEN returned("Market is closed")
        ELSE IF e.prices = <<>> THEN failed
        ELSE LET last_close == e.prices[1]
                 today_open == e.prices[2]
                 sell_strike == today_open - 10
                 buy_strike == sell_strike - spread_width
                 sell_symbol == fetch_option_symbol(e.chain[1], sell_strike)
                 buy_symbol == fetch_option_symbol(e.chain[2], buy_strike)
             IN  IF ~(today_open > last_close) THEN returned("No trade")
                 ELSE IF ~e.PLACE_TRADE THEN returned("Simulation only")
                 ELSE IF sell_symbol.raised \/ buy_symbol.raised THEN failed
                 ELSE IF sell_symbol.symbol = <<>> \/ buy_symbol.symbol = <<>>
                      THEN returned("Trade aborted")
                 ELSE IF e.post = "unreachable" THEN failed
                 ELSE [orders |-> <<[sell_to_open |-> sell_symbol.symbol,
                                     buy_to_open |-> buy_symbol.symbol,
                                     quantity |-> 1]>>,
                       notes |-> notify_telegram("Trade placed"),
                       exit |-> "returned"]

InitOpener ==
    /\ opener \in Openers
    /\ opened = <<>>
    /\ summaries = <<>>
    /\ opener_exit = ""
    /\ InitIdle
    /\ NoScan
    /\ NoBot
    /\ NoSignalBot
    /\ NoCsvUpdate
    /\ NoPolling
    /\ NoCloser

RunOpener ==
    /\ opener_exit = ""
    /\ opened' = qqq_spread(opener).orders
    /\ summaries' = qqq_spread(opener).notes
    /\ opener_exit' = qqq_spread(opener).exit
    /\ UNCHANGED <<opener, simulator_vars, scan_vars, bot_vars, signal_vars,
                   csv_vars, poll_vars, close_vars>>

SpecOpener == InitOpener /\ [][RunOpener]_vars

\* C33 as stated: an order is POSTed only when today's open is above the
\* last close, PLACE_TRADE is set, both symbols were found and, in live
\* mode, the market is open; and every run sends exactly one notification.
C33_OneNotificationAlways ==
    opener_exit # "" =>
       /\ opened # <<>> =>
             /\ opener.prices # <<>>
             /\ opener.prices[2] > opener.prices[1]
             /\ opener.PLACE_TRADE
             /\ opener.chain = <<"listed", "listed">>
             /\ opener.SANDBOX \/ opener.clock = "open"
       /\ Len(summaries) = 1

\* C33, amended: the same conditions for the order; every run calls
\* notify_telegram exactly once, which sends one notification when the
\* Telegram token and chat id are set and none when they are not.
C33_OrderGuardedOneNotifyCall ==
    opener_exit # "" =>
       /\ Len(opened) <= 1
       /\ opened # <<>> =>
             /\ opener.prices # <<>>
             /\ opener.prices[2] > opener.prices[1]
             /\ opener.PLACE_TRADE
             /\ opener.chain = <<"listed", "listed">>
             /\ opener.SANDBOX \/ opener.clock = "open"
       /\ Len(summaries) = (IF opener.telegram THEN 1 ELSE 0)

\* A live run that placed the spread and reported it.
C33_Witness ==
    /\ opener_exit = "returned"
    /\ ~opener.SANDBOX
    /\ Len(opened) = 1
    /\ summaries = <<"Trade placed">>

(***************************************************************************)
(* qqq_spread_close.py: one run of the script, main under the handler of   *)
(* __main__.  Strikes and the QQQ price are whole dollars, option premiums *)
(* whole cents.  A position is its symbol (root, right, strike: what the   *)
(* code reads off the symbol string), its expiration_date (today or not),  *)
(* its signed quantity and the last price quoted for its symbol.           *)
(***************************************************************************)
MaxLegs == 2

Positions ==
    {[symbol |-> <<"QQQ", "P", 505>>, today |-> TRUE, quantity |-> -1, last |-> 6],
     [symbol |-> <<"QQQ", "P", 510>>, today |-> TRUE, quantity |-> 1, last |-> 6],
     [symbol |-> <<"QQQ", "P", 500>>, today |-> TRUE, quantity |-> -1, last |-> 6],
     [symbol |-> <<"QQQ", "P", 505>>, today |-> TRUE, quantity |-> -1, last |-> 5],
     [symbol |-> <<"QQQ", "P", 505>>, today |-> FALSE, quantity |-> -1, last |-> 6],
     [symbol |-> <<"QQQ", "C", 505>>, today |-> TRUE, quantity |-> -1, last |-> 6],
     [symbol |-> <<"SPY", "P", 505>>, today |-> TRUE, quantity |-> -1, last |-> 6]}

\* What the run finds: the settings of the .env file, the clock, the local
\* hour, <<macd, rsi>> or <<>> for (None, None), <<price>> or <<>> for
\* None, the open positions, and how the order endpoint answers.
Closers ==
    [SANDBOX : BOOLEAN, telegram : BOOLEAN,
     clock : {"open", "closed", "unreachable"},
     hour : {15, 16},
     technicals : {<<>>, <<-1, 50>>, <<1, 39>>, <<1, 40>>},
     qqq_price : {<<>>, <<500>>},
     positions : UNION {[1..n -> Positions] : n \in 0..MaxLegs},
     post : {"accepted", "rejected"}]

\* find_qqq_put_legs, without its notification
find_qqq_put_legs(e) ==
    IF e.qqq_price = <<>> THEN <<>>
    ELSE SelectSeq(e.positions,
                   LAMBDA p : /\ p.symbol[1] = "QQQ" /\ p.symbol[2] = "P"
                              /\ p.today
                              /\ p.symbol[3] > e.qqq_price[1]
                              /\ p.last > 5)

\* close_qqq_put_legs: the legs of the payload
close_qqq_put_legs(legs) ==
    [k \in 1..Len(legs) |->
       [side |-> IF legs[k].quantity > 0 THEN "buy_to_close"
                 ELSE "sell_to_close",
        option_symbol |-> legs[k].symbol,
        quantity |-> IF legs[k].quantity < 0 THEN -legs[k].quantity
                     ELSE legs[k].quantity]]

\* main and the handler around it: the orders POSTed, the messages
\* notify_telegram POSTed, and how the run left main.
qqq_spread_close(e) ==
    LET notify_telegram(message) == IF e.telegram THEN <<message>> ELSE <<>>
        returned(notes) ==
            [orders |-> <<>>, notes |-> notes, exit |-> "returned"]
        legs == find_qqq_put_legs(e)
        bearish == notify_telegram("Trend is bearish")
                      \o (IF e.qqq_price = <<>>
                          THEN notify_telegram("Could not fetch QQQ price")
                          ELSE <<>>)
    IN  IF ~e.SANDBOX /\ e.clock = "unreachable"
        THEN [orders |-> <<>>, notes |-> notify_telegram("Script crashed"),
              exit |-> "crashed"]
        ELSE IF ~e.SANDBOX /\ e.clock # "open"
             THEN returned(notify_telegram("Market is closed"))
        ELSE IF ~e.SANDBOX /\ ~(e.hour < 16)
             THEN returned(notify_telegram("It's past 4 PM"))
        ELSE IF e.technicals = <<>>
             THEN returned(notify_telegram("Could not fetch MACD/RSI"))
        ELSE IF ~(e.technicals[1] < 0 \/ e.technicals[2] < 40)
             THEN returned(<<>>)
        ELSE IF legs = <<>>
             THEN returned(bearish \o notify_telegram("No QQQ puts"))
        ELSE [orders |-> <<close_qqq_put_legs(legs)>>,
              notes |-> bearish \o (IF e.post = "rejected"
                                    THEN notify_telegram("Close order failed")
                                    ELSE <<>>),
              exit |-> "returned"]

InitCloser ==
    /\ closer \in Closers
    /\ closed = <<>>
    /\ alerts = <<>>
    /\ closer_exit = ""
    /\ InitIdle
    /\ NoScan
    /\ NoBot
    /\ NoSignalBot
    /\ NoCsvUpdate
    /\ NoPolling
    /\ NoOpener

RunCloser ==
    /\ closer_exit = ""
    /\ closed' = qqq_spread_close(closer).orders
    /\ alerts' = qqq_spread_close(closer).notes
    /\ closer_exit' = qqq_spread_close(closer).exit
    /\ UNCHANGED <<closer, simulator_vars, scan_vars, bot_vars, signal_vars,
                   csv_vars, poll_vars, open_vars>>

SpecCloser == InitCloser /\ [][RunCloser]_vars

\* A QQQ put expiring today, in the money and quoted above $0.05
InTheMoneyToday(p) ==
    /\ p.symbol[1] = "QQQ"
    /\ p.symbol[2] = "P"
    /\ p.today
    /\ closer.qqq_price # <<>>
    /\ p.symbol[3] > closer.qqq_price[1]
    /\ p.last > 5

\* C34: a close order is POSTed only in sandbox mode or with the market
\* open before 16h, with MACD and RSI fetched and MACD < 0 or RSI < 40, and
\* with a QQQ put expiring today whose strike is above the QQQ price and
\* whose premium is above $0.05; its legs are exactly those positions, a
\* long one (quantity > 0) sold to close, a short one bought to close.
C34_ClosesOppositeToPosition ==
    closed # <<>> =>
       LET legs == SelectSeq(closer.positions, InTheMoneyToday)
       IN /\ closer.SANDBOX \/ (closer.clock = "open" /\ closer.hour < 16)
          /\ closer.technicals # <<>>
          /\ closer.technicals[1] < 0 \/ closer.technicals[2] < 40
          /\ legs # <<>>
          /\ Len(closed) = 1
          /\ Len(closed[1]) = Len(legs)
          /\ \A k \in DOMAIN legs :
                /\ closed[1][k].option_symbol = legs[k].symbol
                /\ closed[1][k].side = (IF legs[k].quantity > 0
                                        THEN "sell_to_close"
                                        ELSE "buy_to_close")

====
